---------------------------- MODULE Spec2Model ----------------------------
(***************************************************************************)
(* Generative audio engine of uberwelle/web-synth: the Set Player, the     *)
(* Block Player it drives, and the Clock the Block Player owns.            *)
(*                                                                         *)
(* Every method of the TypeScript classes is an operator from a "world"    *)
(* record (the fields of the three objects, the wall clock and what the    *)
(* handler delivered to outside listeners) to the world after the call, so *)
(* that a handler that calls other methods is the composition of their     *)
(* operators, in the order of the source.  An action of the state machine  *)
(* is one entry from outside: a transport call, a timer firing, a          *)
(* subscription, or the passing of time.                                   *)
(***************************************************************************)
EXTENDS Integers, Sequences, FiniteSets, Bags, TLC

\* ------------------------------------------------------------------ bounds
\* Blocks of the block editor: the length of the list handed to loadSet.
MaxInput == 2
\* External state-change listeners of the Set Player / completion listeners
\* of a stand-alone Block Player.
MaxListeners == 1
\* Seconds of wall-clock time in one unit of `now`.
TickSeconds == 15
\* Units of `now` that pass at once where the phases of a block are not
\* looked at.
CoarseTicks == 10
\* blockPlayer.onStateChange subscriptions beyond which no further block is
\* started (the source never removes them, so the list grows without bound).
MaxSubs == 2
\* Units of AudioContext time (of AudioUnitMs each) the model lets pass.
MaxAudioUnits == 3
\* Calls outside code makes on a Clock used on its own.
MaxClockCalls == 4
\* Tick subscriptions outside code holds on a Clock at one time.
MaxTickSubs == 3

\* Units of `now` that pass at once where a block is watched bar by bar.
PhaseTicks == 2
\* Bars of AudioContext time the model lets pass where a block is watched bar
\* by bar.
MaxBars == 9

\* The values Math.random() takes: draw / RandomSteps for a draw of
\* 0..RandomSteps-1.
RandomSteps == 4
\* The highest octave of a chord handed to getChordNotes.
MaxOctave == 4

\* ------------------------------------------------------- program constants
BLOCK_DURATION_SECONDS == 300
\* ARC thresholds, in percent of the block duration.
ARC_INTRO_END == 10
ARC_BUILD_END == 20
ARC_OUTRO_START == 85
\* Clock.setBpm clamps to [BPM_MIN, BPM_MAX]; a new Clock runs at BPM_DEFAULT.
BPM_MIN == 60
BPM_MAX == 200
BPM_DEFAULT == 120
STEPS_PER_BAR == 16
STEPS_PER_BEAT == 4
\* Times of the AudioContext are whole milliseconds.
LOOKAHEAD_MS == 100
SCHEDULE_INTERVAL_MS == 25
\* "ctx.currentTime + 0.05" of start() and resume().
START_DELAY_MS == 50
\* PadSynth releaseTime; the lengths of the drum sounds ("stop(time + ...)").
PAD_RELEASE_MS == 2000
KICK_MS == 350
HAT_CLOSED_MS == 100
HAT_OPEN_MS == 400
CLAP_MS == 185
\* The deepHouse style, the one a BlockPlayer is constructed with.
BARS_PER_CHORD == 2
\* "masterGain.gain.value = 0.4" of PadSynth.ensureContext, in percent.
PAD_MASTER_GAIN == 40
\* "masterGain.gain.value = 0.6" of BassSynth.ensureNodes, in percent.
BASS_MASTER_GAIN == 60
\* "masterGain.gain.value = 0.8" of DrumSynth.ensureContext, in percent.
DRUM_MASTER_GAIN == 80
\* "noise.stop(time + 0.2)" of DrumSynth.snare.
SNARE_MS == 200
\* The humanization of the Pattern Player: +-3 ms.
TIMING_VARIANCE_MS == 3

\* The last value of `now`: the time one block takes, and one unit more.
MaxNow == (BLOCK_DURATION_SECONDS + TickSeconds - 1) \div TickSeconds + CoarseTicks

\* The last value of `now` where it moves by single units: the time one block
\* takes, and one unit more.
MaxFineNow == (BLOCK_DURATION_SECONDS + TickSeconds - 1) \div TickSeconds + 1

\* The unit of the time between two firings of the scan timer: a firing is
\* on time or late by whole units.
AudioUnitMs == 16 * SCHEDULE_INTERVAL_MS

VARIABLES
  set,       \* the SetPlayer object
  bp,        \* the BlockPlayer object (with its PatternPlayer)
  clock,     \* the Clock object
  now,       \* Date.now(), in units of TickSeconds
  audioTime, \* AudioContext.currentTime, in milliseconds
  out,       \* what the last handler delivered to listeners
  lastOp,    \* the last entry from outside, its argument, and the transport
             \* flags it found
  hist       \* the last step the Clock dispatched, and whether the Clock has
             \* been left alone since

vars == <<set, bp, clock, now, audioTime, out, lastOp, hist>>

\* ----------------------------------------------------------------- helpers
Min(a, b) == IF a < b THEN a ELSE b
Max(a, b) == IF a > b THEN a ELSE b
Range(s) == {s[i] : i \in 1..Len(s)}

RECURSIVE Filter(_, _)
\* Array.prototype.filter with the predicate "is not cb" (an unsubscribe).
Filter(s, cb) ==
  IF s = <<>> THEN <<>>
  ELSE IF Head(s) = cb THEN Filter(Tail(s), cb)
       ELSE <<Head(s)>> \o Filter(Tail(s), cb)

ListenerIds == 1..MaxListeners

NoState == [none |-> TRUE]
NoConfig == [none |-> TRUE]

\* The bpm the block editor gave block number i; two of the three values lie
\* outside the range the Clock accepts.
BpmOf(i) == CASE i % 3 = 1 -> 120
              [] i % 3 = 2 -> 250
              [] OTHER     -> 40

\* The style the block editor gave block number i: the style of a new block
\* and "house", which the engine does not define, and "techno", which it
\* does.
StyleOf(i) == CASE i % 3 = 1 -> "ambient"
                [] i % 3 = 2 -> "techno"
                [] OTHER     -> "house"

\* The lists the block editor hands to loadSet: all its blocks, in its order,
\* each configured or not.
BlockInputs ==
  { [i \in 1..MaxInput |-> [id |-> i, configured |-> c[i], bpm |-> BpmOf(i),
                            style |-> StyleOf(i)]] :
      c \in [1..MaxInput -> BOOLEAN] }

\* The configurations a stand-alone Block Player is given.
BlockConfigs ==
  { [id |-> i, configured |-> TRUE, bpm |-> BpmOf(i), style |-> StyleOf(i),
     duration |-> BLOCK_DURATION_SECONDS] : i \in 1..MaxInput }

\* A state-change listener of outside code that throws when it is called.
ThrowingListener == 0

NoOut == [spNotified |-> [l \in ListenerIds |-> NoState],
          spEmits    |-> 0,
          bpEmits    |-> 0,
          bpState    |-> NoState,
          drums      |-> <<>>,
          pads       |-> <<>>,
          bass       |-> <<>>,
          completed  |-> <<>>,
          ticks      |-> <<>>,
          errors     |-> 0,
          thrown     |-> FALSE]

World == [set |-> set, bp |-> bp, clock |-> clock, now |-> now,
          audioTime |-> audioTime, out |-> NoOut]

\* "a; F()": the statement after a call runs only if the call returned; an
\* exception that nothing catches leaves the handler at once.
AndThen(w, F(_)) == IF w.out.thrown THEN w ELSE F(w)

\* --------------------------------------------------------------- noteUtils
\* A string is the sequence of its characters.
UPPER == <<"A", "B", "C", "D", "E", "F", "G", "H", "I", "J", "K", "L", "M",
           "N", "O", "P", "Q", "R", "S", "T", "U", "V", "W", "X", "Y", "Z">>
LOWER == <<"a", "b", "c", "d", "e", "f", "g", "h", "i", "j", "k", "l", "m",
           "n", "o", "p", "q", "r", "s", "t", "u", "v", "w", "x", "y", "z">>
DIGITS == <<"0", "1", "2", "3", "4", "5", "6", "7", "8", "9">>

\* String.prototype.toUpperCase / toLowerCase, of one character and of a
\* string.
toUpperCase(c) ==
  IF \E i \in 1..26 : LOWER[i] = c
  THEN UPPER[CHOOSE i \in 1..26 : LOWER[i] = c] ELSE c

toLowerCase(c) ==
  IF \E i \in 1..26 : UPPER[i] = c
  THEN LOWER[CHOOSE i \in 1..26 : UPPER[i] = c] ELSE c

LowerCased(s) == [i \in 1..Len(s) |-> toLowerCase(s[i])]

\* The character class \d, and a string of one or more of its members.
IsDigit(c) == \E d \in 1..10 : DIGITS[d] = c
IsDigits(s) == s # <<>> /\ \A i \in 1..Len(s) : IsDigit(s[i])

RECURSIVE parseInt(_)
\* parseInt(s, 10) of a string of digits.
parseInt(s) ==
  IF s = <<>> THEN 0
  ELSE 10 * parseInt(SubSeq(s, 1, Len(s) - 1))
       + (CHOOSE d \in 0..9 : DIGITS[d + 1] = s[Len(s)])

RECURSIVE NumberToString(_)
\* The text a template literal makes of an integer.
NumberToString(n) ==
  IF n < 0 THEN <<"-">> \o NumberToString(-n)
  ELSE IF n < 10 THEN <<DIGITS[n + 1]>>
  ELSE NumberToString(n \div 10) \o <<DIGITS[(n % 10) + 1]>>

NOTE_OFFSETS ==
  (<<"C">> :> 0) @@ (<<"C", "#">> :> 1) @@ (<<"D", "b">> :> 1) @@
  (<<"D">> :> 2) @@ (<<"D", "#">> :> 3) @@ (<<"E", "b">> :> 3) @@
  (<<"E">> :> 4) @@ (<<"F">> :> 5) @@ (<<"F", "#">> :> 6) @@
  (<<"G", "b">> :> 6) @@ (<<"G">> :> 7) @@ (<<"G", "#">> :> 8) @@
  (<<"A", "b">> :> 8) @@ (<<"A">> :> 9) @@ (<<"A", "#">> :> 10) @@
  (<<"B", "b">> :> 10) @@ (<<"B">> :> 11)

\* A frequency 440 * 2^(e/12) Hz is kept as its exponent e.
midiToFrequency(midiNote) == [hz440TimesTwoToThe12th |-> midiNote - 69]

\* The match of /^([A-Ga-g][#b]?)(\d+)$/: the letter, then the accidental if
\* digits to the end follow it, else digits to the end at once.
MIDDLE_C == 60

noteNameToMidi(noteName) ==
  LET letter == Len(noteName) >= 2
                /\ \E i \in 1..7 : noteName[1] \in {UPPER[i], LOWER[i]}
      withAcc == letter /\ noteName[2] \in {"#", "b"}
                 /\ IsDigits(SubSeq(noteName, 3, Len(noteName)))
      plain == letter /\ IsDigits(SubSeq(noteName, 2, Len(noteName)))
      note == IF withAcc THEN SubSeq(noteName, 1, 2) ELSE SubSeq(noteName, 1, 1)
      octaveStr == SubSeq(noteName, Len(note) + 1, Len(noteName))
      noteUpper == <<toUpperCase(note[1])>> \o Tail(note)
  IN IF ~(withAcc \/ plain) THEN MIDDLE_C
     ELSE IF noteUpper \notin DOMAIN NOTE_OFFSETS THEN MIDDLE_C
     ELSE 12 * (parseInt(octaveStr) + 1) + NOTE_OFFSETS[noteUpper]

noteNameToFrequency(noteName) == midiToFrequency(noteNameToMidi(noteName))

noteNames == << <<"C">>, <<"C", "#">>, <<"D">>, <<"D", "#">>, <<"E">>, <<"F">>,
               <<"F", "#">>, <<"G">>, <<"G", "#">>, <<"A">>, <<"A", "#">>,
               <<"B">> >>

\* Mutant: the octave is not lowered by one.
midiToNoteName_noShift(midi) ==
  noteNames[(midi % 12) + 1] \o NumberToString(midi \div 12)

\* For a midi of 0 or more ("%" of a negative number is negative in the
\* source and finds no name).
midiToNoteName(midi) ==
  noteNames[(midi % 12) + 1] \o NumberToString((midi \div 12) - 1)

\* The intervals of the switch on quality.toLowerCase().
ChordIntervals(quality) ==
  CASE quality \in {<<>>, <<"m", "a", "j">>} -> <<0, 4, 7>>
    [] quality \in {<<"m">>, <<"m", "i", "n">>} -> <<0, 3, 7>>
    [] quality \in {<<"7">>, <<"d", "o", "m", "7">>} -> <<0, 4, 7, 10>>
    [] quality = <<"m", "a", "j", "7">> -> <<0, 4, 7, 11>>
    [] quality \in {<<"m", "7">>, <<"m", "i", "n", "7">>} -> <<0, 3, 7, 10>>
    [] quality = <<"d", "i", "m">> -> <<0, 3, 6>>
    [] quality = <<"a", "u", "g">> -> <<0, 4, 8>>
    [] quality = <<"5">> -> <<0, 7>>
    [] quality = <<"s", "u", "s", "2">> -> <<0, 2, 7>>
    [] quality = <<"s", "u", "s", "4">> -> <<0, 5, 7>>
    [] OTHER -> <<0, 4, 7>>

\* The match of /^([A-G][#b]?)(.*)$/: the root takes the accidental whenever
\* one follows the letter.
getChordNotes(chordName, octave) ==
  LET matches == chordName # <<>> /\ \E i \in 1..7 : chordName[1] = UPPER[i]
      root == IF Len(chordName) >= 2 /\ chordName[2] \in {"#", "b"}
              THEN SubSeq(chordName, 1, 2) ELSE SubSeq(chordName, 1, 1)
      quality == SubSeq(chordName, Len(root) + 1, Len(chordName))
      intervals == ChordIntervals(LowerCased(quality))
      rootMidi == noteNameToMidi(root \o NumberToString(octave))
  IN IF ~matches
     THEN << <<"C">> \o NumberToString(octave), <<"E">> \o NumberToString(octave),
             <<"G">> \o NumberToString(octave) >>
     ELSE [i \in 1..Len(intervals) |-> midiToNoteName(rootMidi + intervals[i])]

\* ------------------------------------------------------------------ styles
\* The steps of the deepHouse patterns with a velocity above 0 (no snare),
\* and those of its bass line.
KickSteps == {0, 4, 8, 12}
HatClosedSteps == {2, 6, 7, 10, 14, 15}
HatOpenSteps == {15}
ClapSteps == {4, 12}
BassSteps == {0, 6, 10, 14}

\* The drum patterns of the deepHouse style: the velocity of each step, in
\* tenths.
DeepHouseDrums ==
  [kick      |-> [s \in 0..15 |-> IF s \in KickSteps THEN 10 ELSE 0],
   snare     |-> [s \in 0..15 |-> 0],
   hatClosed |-> [s \in 0..15 |-> IF s \in {7, 15} THEN 3
                                  ELSE IF s \in HatClosedSteps THEN 8 ELSE 0],
   hatOpen   |-> [s \in 0..15 |-> IF s \in HatOpenSteps THEN 5 ELSE 0],
   clap      |-> [s \in 0..15 |-> IF s \in ClapSteps THEN 10 ELSE 0]]

\* The bass line of the deepHouse style: the note of a step.
DeepHouseBass == (0 :> <<"C", "2">>) @@ (6 :> <<"C", "2">>) @@
                 (10 :> <<"G", "2">>) @@ (14 :> <<"C", "2">>)

\* The chords of the deepHouse style.
DeepHouseChords == << <<"C", "m", "7">>, <<"F", "m", "7">>, <<"G", "m", "7">>,
                     <<"F", "m", "7">> >>

\* A pattern of a style: the velocities of steps 0..15, in tenths.
Pattern(velocities) == [s \in 0..15 |-> velocities[s + 1]]

\* What is kept of a StyleDefinition: its name, its drum patterns, its bass
\* line (the note of each step that has one) and its chords.
deepHouse == [name |-> "deepHouse",
              drums |-> DeepHouseDrums,
              bass |-> DeepHouseBass,
              chords |-> [chords |-> DeepHouseChords,
                          barsPerChord |-> BARS_PER_CHORD]]

progressiveHouse ==
  [name |-> "progressiveHouse",
   drums |->
     [kick      |-> Pattern(<<10, 0, 0, 0, 9, 0, 0, 0, 9, 0, 0, 0, 9, 0, 0, 0>>),
      snare     |-> Pattern(<<0, 0, 0, 0, 6, 0, 0, 0, 0, 0, 0, 0, 6, 0, 0, 0>>),
      hatClosed |-> Pattern(<<6, 0, 8, 3, 6, 0, 8, 3, 6, 0, 8, 3, 6, 0, 8, 4>>),
      hatOpen   |-> Pattern(<<0, 0, 4, 0, 0, 0, 0, 0, 0, 0, 4, 0, 0, 0, 0, 0>>),
      clap      |-> Pattern(<<0, 0, 0, 0, 7, 0, 0, 0, 0, 0, 0, 0, 7, 0, 0, 0>>)],
   bass |-> (0 :> <<"A", "2">>) @@ (3 :> <<"A", "2">>) @@ (6 :> <<"A", "2">>) @@
            (8 :> <<"E", "2">>) @@ (11 :> <<"A", "2">>) @@ (14 :> <<"G", "2">>),
   chords |-> [chords |-> << <<"A", "m">>, <<"F">>, <<"C">>, <<"G">> >>,
               barsPerChord |-> 4]]

techno ==
  [name |-> "techno",
   drums |->
     [kick      |-> Pattern(<<10, 0, 0, 0, 10, 0, 0, 0, 10, 0, 0, 0, 10, 0, 0, 0>>),
      snare     |-> Pattern(<<0, 0, 0, 0, 9, 0, 0, 0, 0, 0, 0, 0, 9, 0, 0, 0>>),
      hatClosed |-> Pattern(<<7, 5, 8, 5, 7, 5, 8, 5, 7, 5, 8, 5, 7, 5, 8, 6>>),
      hatOpen   |-> Pattern(<<0, 0, 0, 0, 0, 0, 5, 0, 0, 0, 0, 0, 0, 0, 5, 0>>),
      clap      |-> Pattern(<<0, 0, 0, 0, 8, 0, 0, 0, 0, 0, 0, 0, 8, 0, 0, 0>>)],
   bass |-> (0 :> <<"E", "1">>) @@ (2 :> <<"E", "1">>) @@ (4 :> <<"E", "1">>) @@
            (6 :> <<"E", "1">>) @@ (8 :> <<"G", "1">>) @@ (10 :> <<"G", "1">>) @@
            (12 :> <<"E", "1">>) @@ (14 :> <<"E", "1">>),
   chords |-> [chords |-> << <<"E", "5">>, <<"E", "5">>, <<"G", "5">>,
                             <<"E", "5">> >>,
               barsPerChord |-> 4]]

\* The object literal "{ deepHouse, progressiveHouse, techno }".
styles == [deepHouse |-> deepHouse, progressiveHouse |-> progressiveHouse,
           techno |-> techno]

\* The properties an object literal inherits: "styles[name]" finds them for
\* a name that is not a key of the literal.  Each is a function or an
\* object, so it is truthy.
ObjectPrototype ==
  [k \in {"constructor", "toString", "toLocaleString", "valueOf",
          "hasOwnProperty", "isPrototypeOf", "propertyIsEnumerable",
          "__proto__"} |-> [inherited |-> k]]

Undefined == [undefined |-> TRUE]

getStyle(name) ==
  LET found == IF name \in DOMAIN styles THEN styles[name]
               ELSE IF name \in DOMAIN ObjectPrototype
               THEN ObjectPrototype[name]
               ELSE Undefined
  IN IF found # Undefined THEN found ELSE styles.deepHouse

\* ------------------------------------------------------------------- Clock
Clock_new(bpm) == [bpm |-> bpm,
                   isPlaying |-> FALSE,
                   isPaused |-> FALSE,
                   nextStepTime |-> 0,
                   currentStep |-> 0,
                   currentBar |-> 0,
                   schedulerTimer |-> FALSE,
                   pausedAtStep |-> 0,
                   pausedAtBar |-> 0,
                   onSixteenthCallbacks |-> <<>>,
                   onBeatCallbacks |-> <<>>,
                   onBarCallbacks |-> <<>>,
                   \* the interval timers set and not cleared
                   liveTimers |-> 0]

\* 60 / bpm / STEPS_PER_BEAT seconds, in milliseconds; exact for the tempos
\* of BpmOf and their clamped values.
Clock_stepDuration(w) == ((60 * 1000) \div w.clock.bpm) \div STEPS_PER_BEAT

Clock_startScheduler(w) ==
  IF w.clock.schedulerTimer THEN w
  ELSE [w EXCEPT !.clock.schedulerTimer = TRUE,
                 !.clock.liveTimers = @ + 1]

Clock_stopScheduler(w) ==
  IF w.clock.schedulerTimer
  THEN [w EXCEPT !.clock.schedulerTimer = FALSE,
                 !.clock.liveTimers = @ - 1]
  ELSE w

\* An entry of out.ticks: a step dispatched, a listener called, or what a
\* listener did to the Clock.
Event(ev, cb, n, step, time) ==
  [ev |-> ev, cb |-> cb, n |-> n, step |-> step, time |-> time]

Clock_start(w) ==
  IF w.clock.isPlaying /\ ~w.clock.isPaused THEN w
  ELSE Clock_startScheduler(
         [w EXCEPT !.clock.isPlaying = TRUE,
                   !.clock.isPaused = FALSE,
                   !.clock.currentStep = 0,
                   !.clock.currentBar = 0,
                   !.clock.nextStepTime = w.audioTime + START_DELAY_MS])

Clock_stop(w) ==
  LET w1 == Clock_stopScheduler(w)
  IN [w1 EXCEPT !.clock.isPlaying = FALSE,
                !.clock.isPaused = FALSE,
                !.clock.currentStep = 0,
                !.clock.currentBar = 0]

\* Mutant: pause() leaves the scan timer running.
Clock_pause_keepTimer(w) ==
  IF ~w.clock.isPlaying \/ w.clock.isPaused THEN w
  ELSE [w EXCEPT !.clock.isPaused = TRUE,
                 !.clock.pausedAtStep = w.clock.currentStep,
                 !.clock.pausedAtBar = w.clock.currentBar]

Clock_pause(w) ==
  IF ~w.clock.isPlaying \/ w.clock.isPaused THEN w
  ELSE LET w1 == Clock_stopScheduler(w)
       IN [w1 EXCEPT !.clock.isPaused = TRUE,
                     !.clock.pausedAtStep = w1.clock.currentStep,
                     !.clock.pausedAtBar = w1.clock.currentBar]

Clock_resume(w) ==
  IF ~w.clock.isPaused THEN w
  ELSE Clock_startScheduler(
         [w EXCEPT !.clock.isPaused = FALSE,
                   !.clock.currentStep = w.clock.pausedAtStep,
                   !.clock.currentBar = w.clock.pausedAtBar,
                   !.clock.nextStepTime = w.audioTime + START_DELAY_MS])

Clock_dispose(w) ==
  [Clock_stop(w) EXCEPT !.clock.onSixteenthCallbacks = <<>>,
                        !.clock.onBeatCallbacks = <<>>,
                        !.clock.onBarCallbacks = <<>>]

Clock_setBpm(w, bpm) ==
  [w EXCEPT !.clock.bpm = Max(BPM_MIN, Min(BPM_MAX, bpm))]

Clock_onSixteenth(w, cb) ==
  [w EXCEPT !.clock.onSixteenthCallbacks = Append(@, cb)]

Clock_onBeat(w, cb) ==
  [w EXCEPT !.clock.onBeatCallbacks = Append(@, cb)]

Clock_onBar(w, cb) ==
  [w EXCEPT !.clock.onBarCallbacks = Append(@, cb)]

\* The function a subscription returns.
Clock_unsubscribe(w, cb) ==
  CASE cb.kind = "bar" -> [w EXCEPT !.clock.onBarCallbacks = Filter(@, cb)]
    [] cb.kind = "beat" -> [w EXCEPT !.clock.onBeatCallbacks = Filter(@, cb)]
    [] OTHER -> [w EXCEPT !.clock.onSixteenthCallbacks = Filter(@, cb)]

RECURSIVE Clock_unsubscribeAll(_, _)
\* "for (const unsub of this.unsubscribers) unsub()"
Clock_unsubscribeAll(w, unsubs) ==
  IF unsubs = <<>> THEN w
  ELSE Clock_unsubscribeAll(Clock_unsubscribe(w, Head(unsubs)), Tail(unsubs))


\* ------------------------------------------------------------- BlockPlayer
\* A progress p in [0,1] is kept as the number p * BLOCK_DURATION_SECONDS of
\* whole seconds, so that the comparisons of the source are integer ones.
BP_getState(w) ==
  LET elapsed == IF w.bp.isPlaying
                 THEN (w.now - w.bp.startTime) * TickSeconds
                 ELSE 0
  IN [isPlaying |-> w.bp.isPlaying,
      phase |-> w.bp.currentPhase,
      progress |-> Min(BLOCK_DURATION_SECONDS, elapsed),
      elapsedSeconds |-> elapsed,
      totalSeconds |-> BLOCK_DURATION_SECONDS,
      currentBar |-> w.bp.currentBar]

\* ---------------------------------------------- SetPlayer (state, emitting)
SP_getState(w) ==
  [isPlaying |-> w.set.isPlaying,
   isPaused |-> w.set.isPaused,
   currentBlockIndex |-> w.set.currentBlockIndex,
   blockProgress |-> IF w.set.blockPlayer THEN BP_getState(w).progress ELSE 0,
   totalBlocks |-> Len(w.set.blocks)]

SP_getCurrentBlock(w) ==
  IF w.set.currentBlockIndex >= Len(w.set.blocks) THEN NoConfig
  ELSE w.set.blocks[w.set.currentBlockIndex + 1]

RECURSIVE SP_emitLoop(_, _, _)
\* "for (const cb of this.onStateChangeCallbacks) cb(state)", with no try:
\* a listener either records what it is given or throws, and a throw ends
\* the loop and the caller.
SP_emitLoop(w, cbs, state) ==
  IF cbs = <<>> THEN w
  ELSE IF Head(cbs) = ThrowingListener
       THEN [w EXCEPT !.out.thrown = TRUE]
       ELSE SP_emitLoop([w EXCEPT !.out.spNotified[Head(cbs)] = state],
                        Tail(cbs), state)

SP_emitStateChange(w) ==
  SP_emitLoop([w EXCEPT !.out.spEmits = @ + 1],
              w.set.onStateChangeCallbacks, SP_getState(w))

\* ------------------------------------------------- BlockPlayer (continued)
RECURSIVE BP_emitLoop(_, _)
BP_emitLoop(w, cbs) ==
  IF cbs = <<>> \/ w.out.thrown THEN w
  ELSE BP_emitLoop(IF Head(cbs).owner = "set" THEN SP_emitStateChange(w) ELSE w,
                   Tail(cbs))

\* out.bpState is the `state` the loop hands to each listener.
BP_emitStateChange(w) ==
  BP_emitLoop([w EXCEPT !.out.bpEmits = @ + 1, !.out.bpState = BP_getState(w)],
              w.bp.onStateChangeCallbacks)

\* ------------------------------------------------------------ generators
\* A PadSynth as constructed.  masterGain: whether ensureContext has made the
\* master nodes; volume: masterGain.gain.value, in percent; voices: the keys
\* of the Map of voices; held: the node sets whose oscillators were started
\* and have been given no stop, by the note name each was made for.
PadSynth_new == [masterGain |-> FALSE, volume |-> 0, voices |-> {},
                 held |-> EmptyBag]

\* A BassSynth as constructed.  osc1: whether ensureNodes has made the nodes
\* (ctx, osc1, osc2, filter, gainNode and masterGain are made and dropped
\* together); nodeSets: the sets of nodes made and not disposed of; volume:
\* masterGain.gain.value, in percent; glideFrom: the frequency the last
\* noteOn let the oscillators glide from (NoGlide if it set them at once);
\* gate: whether gainNode is at zero, held open by a note or ramping down.
NoGlide == [none |-> TRUE]

BassSynth_new == [osc1 |-> FALSE, nodeSets |-> 0, volume |-> 0,
                  isPlaying |-> FALSE, currentFrequency |-> 0,
                  glideFrom |-> NoGlide, gate |-> "zero"]

\* A DrumSynth as constructed.  masterGain: whether ensureContext has made
\* the master node; volume: masterGain.gain.value, in percent.
DrumSynth_new == [masterGain |-> FALSE, volume |-> 0]

\* What is kept of the three synths: the DrumSynth; the BassSynth; the
\* PadSynth; the time the last release tail of a pad voice ends; the time the
\* last scheduled drum sound ends.
NoSound == [drums |-> DrumSynth_new, bass |-> BassSynth_new,
            pads |-> PadSynth_new, padTailEnd |-> 0, drumEnd |-> 0]

\* The drums in the order playStep goes through them, and the length of the
\* sound of each.
DrumOrder == <<"kick", "snare", "hatClosed", "hatOpen", "clap">>

DrumLength(drum) ==
  CASE drum = "kick" -> KICK_MS
    [] drum = "snare" -> SNARE_MS
    [] drum = "hatClosed" -> HAT_CLOSED_MS
    [] drum = "hatOpen" -> HAT_OPEN_MS
    [] drum = "clap" -> CLAP_MS

Drum_ensureContext(w) ==
  IF w.bp.sound.drums.masterGain THEN w
  ELSE [w EXCEPT !.bp.sound.drums.masterGain = TRUE,
                 !.bp.sound.drums.volume = DRUM_MASTER_GAIN]

Drum_setVolume(w, volume) ==
  IF w.bp.sound.drums.masterGain
  THEN [w EXCEPT !.bp.sound.drums.volume = Max(0, Min(100, volume))]
  ELSE w

\* kick(), snare(), hihatClosed(), hihatOpen() or clap() at `time`
\* (microseconds) with a velocity: nodes scheduled with start(time) and
\* stop(time + len).  DrumSynth has no method that takes one back.
Drum_hit(w, drum, time, velocity) ==
  LET w1 == Drum_ensureContext(w)
  IN [w1 EXCEPT !.out.drums =
                    Append(@, [drum |-> drum, time |-> time,
                               velocity |-> velocity]),
                !.bp.sound.drumEnd =
                    Max(@, (time \div 1000) + DrumLength(drum))]

\* Math.random() returns draw / RandomSteps, a number of [0, 1).  Velocities
\* are kept in units of 1 / VelocityOne, so that a velocity of the patterns
\* and the variance of a draw are whole numbers.
VelocityOne == 10 * RandomSteps

\* Mutant: the velocity with its variance, not clamped.
PP_humanizeVelocity_unclamped(velocity, draw) ==
  velocity + (2 * draw - RandomSteps)

\* (Math.random() * 2 - 1) * VELOCITY_VARIANCE is (2 * draw - RandomSteps)
\* units.
PP_humanizeVelocity(velocity, draw) ==
  LET variance == 2 * draw - RandomSteps
  IN Max(VelocityOne \div 10, Min(VelocityOne, velocity + variance))

\* In microseconds.
PP_getTimingVariance(draw) ==
  ((2 * draw - RandomSteps) * TIMING_VARIANCE_MS * 1000) \div RandomSteps

\* The i-th draw of a call: the draws of a call come round again.
Draw(rand, i) == rand[((i - 1) % Len(rand)) + 1]

RECURSIVE PP_playDrums(_, _, _, _, _, _)
\* The five "if (vel > 0) this.drums.x(humanizedTime, humanizeVelocity(vel))"
\* of playStep; i is the number of the next draw.
PP_playDrums(w, drumsLeft, step, humanizedTime, rand, i) ==
  IF drumsLeft = <<>> THEN w
  ELSE LET vel == w.bp.patternPlayer.currentPatterns[Head(drumsLeft)][step]
       IN IF vel > 0
          THEN PP_playDrums(
                 Drum_hit(w, Head(drumsLeft), humanizedTime,
                          PP_humanizeVelocity(vel * RandomSteps, Draw(rand, i))),
                 Tail(drumsLeft), step, humanizedTime, rand, i + 1)
          ELSE PP_playDrums(w, Tail(drumsLeft), step, humanizedTime, rand, i)

\* PatternPlayer.playStep for a tick at `time` (milliseconds), with the draws
\* Math.random() gives it.
PP_playStep(w, step, time, rand) ==
  PP_playDrums(w, DrumOrder, step,
               time * 1000 + PP_getTimingVariance(Draw(rand, 1)), rand, 2)

\* The draws of a tick where they are not looked at: the middle of the range.
MidDraws == <<RandomSteps \div 2>>

\* "this.currentPatterns[drum] = pattern" writes a property of the object
\* currentPatterns refers to: the object the spread made (ownPatterns), or,
\* were it the drums object of the style itself, the style.
PP_setDrumPattern(w, drum, pattern) ==
  IF Cardinality(DOMAIN pattern) = 16
  THEN LET w1 == [w EXCEPT !.bp.patternPlayer.currentPatterns[drum] = pattern]
       IN IF w.bp.patternPlayer.ownPatterns THEN w1
          ELSE [w1 EXCEPT !.bp.patternPlayer.style.drums[drum] = pattern]
  ELSE w

\* Mutant: currentPatterns is made to refer to the drums object of the
\* style, with no spread.
PP_setStyle_shared(w, styleName) ==
  [w EXCEPT !.bp.patternPlayer.style = getStyle(styleName),
            !.bp.patternPlayer.currentPatterns = getStyle(styleName).drums,
            !.bp.patternPlayer.ownPatterns = FALSE]

\* "{ ...this.style.drums }" is a new object with the five arrays of the
\* style as its properties.
PP_setStyle(w, styleName) ==
  [w EXCEPT !.bp.patternPlayer.style = getStyle(styleName),
            !.bp.patternPlayer.currentPatterns = getStyle(styleName).drums,
            !.bp.patternPlayer.ownPatterns = TRUE]

PP_resetPatterns(w) ==
  [w EXCEPT !.bp.patternPlayer.currentPatterns =
              w.bp.patternPlayer.style.drums,
            !.bp.patternPlayer.ownPatterns = TRUE]

\* Mutant: ensureNodes makes its nodes on every call.
Bass_ensureNodes_always(w) ==
  [w EXCEPT !.bp.sound.bass.osc1 = TRUE,
            !.bp.sound.bass.nodeSets = @ + 1,
            !.bp.sound.bass.volume = BASS_MASTER_GAIN,
            !.bp.sound.bass.gate = "zero"]

Bass_ensureNodes(w) ==
  IF w.bp.sound.bass.osc1 THEN w
  ELSE [w EXCEPT !.bp.sound.bass.osc1 = TRUE,
                 !.bp.sound.bass.nodeSets = @ + 1,
                 !.bp.sound.bass.volume = BASS_MASTER_GAIN,
                 !.bp.sound.bass.gate = "zero"]

Bass_setVolume(w, volume) ==
  IF w.bp.sound.bass.osc1
  THEN [w EXCEPT !.bp.sound.bass.volume = Max(0, Min(100, volume))]
  ELSE w

\* glideTime is 0.03 > 0: a noteOn while isPlaying ramps the two oscillators
\* from currentFrequency to the new frequency.
Bass_noteOn(w, note, time) ==
  LET w1 == Bass_ensureNodes(
              [w EXCEPT !.out.bass = Append(@, [op |-> "noteOn", note |-> note,
                                                time |-> time])])
      frequency == noteNameToFrequency(note)
  IN [w1 EXCEPT !.bp.sound.bass.glideFrom =
                    IF w1.bp.sound.bass.isPlaying
                    THEN w1.bp.sound.bass.currentFrequency ELSE NoGlide,
                !.bp.sound.bass.currentFrequency = frequency,
                !.bp.sound.bass.gate = "held",
                !.bp.sound.bass.isPlaying = TRUE]

\* The call is recorded for the step that made it.
Bass_noteOff(w, time) ==
  LET w1 == [w EXCEPT !.out.bass = Append(@, [op |-> "noteOff", time |-> time])]
  IN IF ~w.bp.sound.bass.osc1 \/ ~w.bp.sound.bass.isPlaying THEN w1
     ELSE [w1 EXCEPT !.bp.sound.bass.gate = "releasing",
                     !.bp.sound.bass.isPlaying = FALSE]

\* cancelScheduledValues(now); setValueAtTime(0, now)
Bass_silence(w) ==
  [w EXCEPT !.bp.sound.bass.gate = "zero",
            !.bp.sound.bass.isPlaying = FALSE]

\* silence(), then every node is stopped, disconnected and dropped.
Bass_dispose(w) ==
  [Bass_silence(w) EXCEPT !.bp.sound.bass.osc1 = FALSE,
                          !.bp.sound.bass.nodeSets = 0,
                          !.bp.sound.bass.volume = 0]

Pad_ensureContext(w) ==
  IF w.bp.sound.pads.masterGain THEN w
  ELSE [w EXCEPT !.bp.sound.pads.masterGain = TRUE,
                 !.bp.sound.pads.volume = PAD_MASTER_GAIN]

Pad_setVolume(w, volume) ==
  IF w.bp.sound.pads.masterGain
  THEN [w EXCEPT !.bp.sound.pads.volume = Max(0, Min(100, volume))]
  ELSE w

\* Mutant: noteOn makes a voice whether or not the Map has the note.
Pad_noteOn_retrigger(w, note, time) ==
  LET w1 == Pad_ensureContext(w)
  IN [w1 EXCEPT !.bp.sound.pads.held = @ (+) SetToBag({note}),
                !.bp.sound.pads.voices = @ \cup {note}]

Pad_noteOn(w, note, time) ==
  LET w1 == Pad_ensureContext(w)
  IN IF note \in w1.bp.sound.pads.voices THEN w1
     ELSE [w1 EXCEPT !.bp.sound.pads.held = @ (+) SetToBag({note}),
                     !.bp.sound.pads.voices = @ \cup {note}]

\* The voice of the Map is ramped to 0 over releaseTime from `time`, its
\* oscillators are given a stop, and the note leaves the Map.
Pad_noteOff(w, note, time) ==
  IF note \notin w.bp.sound.pads.voices THEN w
  ELSE [w EXCEPT !.bp.sound.pads.held = @ (-) SetToBag({note}),
                 !.bp.sound.pads.voices = @ \ {note},
                 !.bp.sound.padTailEnd = Max(@, time + PAD_RELEASE_MS)]

RECURSIVE Pad_notesOn(_, _, _)
Pad_notesOn(w, notes, time) ==
  IF notes = <<>> THEN w
  ELSE Pad_notesOn(Pad_noteOn(w, Head(notes), time), Tail(notes), time)

RECURSIVE Pad_notesOff(_, _, _)
Pad_notesOff(w, notes, time) ==
  IF notes = <<>> THEN w
  ELSE Pad_notesOff(Pad_noteOff(w, Head(notes), time), Tail(notes), time)

\* The call is recorded for the step that made it.
Pad_chordOn(w, chordName, time, octave) ==
  Pad_notesOn([w EXCEPT !.out.pads =
                 Append(@, [op |-> "chordOn", chord |-> chordName,
                            time |-> time, octave |-> octave])],
              getChordNotes(chordName, octave), time)

Pad_chordOff(w, chordName, time, octave) ==
  Pad_notesOff(w, getChordNotes(chordName, octave), time)

RECURSIVE Pad_keysOff(_, _, _)
\* "for (const note of this.voices.keys()) this.noteOff(note, releaseTime)"
Pad_keysOff(w, keys, time) ==
  IF keys = {} THEN w
  ELSE LET note == CHOOSE n \in keys : TRUE
       IN Pad_keysOff(Pad_noteOff(w, note, time), keys \ {note}, time)

\* Mutant: allNotesOff releases one voice of the Map only.
Pad_allNotesOff_one(w, time) ==
  LET keys == w.bp.sound.pads.voices
      w1 == [w EXCEPT !.out.pads =
               Append(@, [op |-> "allNotesOff", time |-> time])]
  IN IF keys = {} THEN w1
     ELSE Pad_noteOff(w1, CHOOSE n \in keys : TRUE, time)

\* The call is recorded for the step that made it.
Pad_allNotesOff(w, time) ==
  Pad_keysOff([w EXCEPT !.out.pads =
                 Append(@, [op |-> "allNotesOff", time |-> time])],
              w.bp.sound.pads.voices, time)

\* Every voice of the Map is stopped at once, and the Map is cleared.
Pad_silence(w) ==
  [w EXCEPT !.bp.sound.pads.held =
                @ (-) SetToBag(w.bp.sound.pads.voices),
            !.bp.sound.pads.voices = {}]

\* Mutant: the chord is the one of the bar's number, not of the bar's pair
\* (or four) of bars.
BP_onBar_chordPerBar(w, bar, time) ==
  LET chords == w.bp.style.chords
      chordIndex == bar % Len(chords.chords)
  IN IF ~w.bp.isPlaying \/ w.bp.currentPhase = "intro" THEN w
     ELSE IF bar % chords.barsPerChord = 0 /\ w.bp.currentPhase # "outro"
          THEN Pad_chordOn(Pad_allNotesOff(w, time),
                           chords.chords[chordIndex + 1], time + 10, 3)
          ELSE w

BP_onBar(w, bar, time) ==
  LET chords == w.bp.style.chords
      barsPerChord == chords.barsPerChord
      chordIndex == (bar \div barsPerChord) % Len(chords.chords)
  IN IF ~w.bp.isPlaying \/ w.bp.currentPhase = "intro" THEN w
     ELSE IF bar % barsPerChord = 0 /\ w.bp.currentPhase # "outro"
          THEN Pad_chordOn(Pad_allNotesOff(w, time),
                           chords.chords[chordIndex + 1], time + 10, 3)
          ELSE w

\* Mutant: the note before is not released.
BP_onStep_noRelease(w, step, time) ==
  LET bassPattern == w.bp.style.bass
  IN IF ~w.bp.isPlaying \/ w.bp.currentPhase = "intro" THEN w
     ELSE IF step \in DOMAIN bassPattern
          THEN Bass_noteOn(w, bassPattern[step], time + 5)
          ELSE w

BP_onStep(w, step, time) ==
  LET bassPattern == w.bp.style.bass
  IN IF ~w.bp.isPlaying \/ w.bp.currentPhase = "intro" THEN w
     ELSE IF step \in DOMAIN bassPattern
          THEN Bass_noteOn(Bass_noteOff(w, time), bassPattern[step], time + 5)
          ELSE w

PP_cb == [owner |-> "pp", kind |-> "step", id |-> 0]
BP_barCb == [owner |-> "bp", kind |-> "bar", id |-> 0]
BP_stepCb == [owner |-> "bp", kind |-> "step", id |-> 0]

PP_start(w) ==
  IF w.bp.patternPlayer.isPlaying THEN w
  ELSE LET w1 == [w EXCEPT !.bp.patternPlayer.isPlaying = TRUE]
           w2 == Clock_onSixteenth(w1, PP_cb)
       IN [w2 EXCEPT !.bp.patternPlayer.unsubscribers = Append(@, PP_cb)]

PP_stop(w) ==
  LET w1 == [w EXCEPT !.bp.patternPlayer.isPlaying = FALSE]
      w2 == Clock_unsubscribeAll(w1, w1.bp.patternPlayer.unsubscribers)
  IN [w2 EXCEPT !.bp.patternPlayer.unsubscribers = <<>>]

BlockPlayer_new == [config |-> NoConfig,
                    isPlaying |-> FALSE,
                    startTime |-> 0,
                    currentPhase |-> "stopped",
                    currentBar |-> 0,
                    progressInterval |-> FALSE,
                    unsubscribers |-> <<>>,
                    onStateChangeCallbacks |-> <<>>,
                    onCompleteCallbacks |-> <<>>,
                    sound |-> NoSound,
                    style |-> getStyle("deepHouse"),
                    patternPlayer |-> [isPlaying |-> FALSE,
                                       unsubscribers |-> <<>>,
                                       style |-> getStyle("deepHouse"),
                                       currentPatterns |->
                                         getStyle("deepHouse").drums,
                                       ownPatterns |-> TRUE]]

BP_load(w, block) ==
  LET w1 == [w EXCEPT !.bp.config = block,
                      !.bp.style = getStyle(block.style)]
  IN Clock_setBpm(PP_setStyle(w1, block.style), block.bpm)

\* Mutant: play() does not look at the isPlaying flag.
BP_play_unguarded(w) ==
  IF w.bp.config = NoConfig THEN w
  ELSE LET w1 == [w EXCEPT !.bp.isPlaying = TRUE,
                           !.bp.startTime = w.now,
                           !.bp.currentPhase = "intro",
                           !.bp.currentBar = 0]
           w2 == Clock_onBar(w1, BP_barCb)
           w3 == [w2 EXCEPT !.bp.unsubscribers = Append(@, BP_barCb)]
           w4 == Clock_onSixteenth(w3, BP_stepCb)
           w5 == [w4 EXCEPT !.bp.unsubscribers = Append(@, BP_stepCb)]
           w6 == PP_start(w5)
           w7 == [w6 EXCEPT !.bp.progressInterval = TRUE]
           w8 == Clock_start(w7)
       IN BP_emitStateChange(w8)

BP_play(w) ==
  IF w.bp.config = NoConfig \/ w.bp.isPlaying THEN w
  ELSE LET w1 == [w EXCEPT !.bp.isPlaying = TRUE,
                           !.bp.startTime = w.now,
                           !.bp.currentPhase = "intro",
                           !.bp.currentBar = 0]
           w2 == Clock_onBar(w1, BP_barCb)
           w3 == [w2 EXCEPT !.bp.unsubscribers = Append(@, BP_barCb)]
           w4 == Clock_onSixteenth(w3, BP_stepCb)
           w5 == [w4 EXCEPT !.bp.unsubscribers = Append(@, BP_stepCb)]
           w6 == PP_start(w5)
           w7 == [w6 EXCEPT !.bp.progressInterval = TRUE]
           w8 == Clock_start(w7)
       IN BP_emitStateChange(w8)

\* Mutant: stop() leaves the subscriptions of the player on the Clock.
BP_stop_keepSubscriptions(w) ==
  LET w1 == [w EXCEPT !.bp.isPlaying = FALSE,
                      !.bp.currentPhase = "stopped"]
      w2 == Clock_stop(w1)
      w3 == Pad_allNotesOff(Bass_silence(PP_stop(w2)), w2.audioTime)
      w5 == [w3 EXCEPT !.bp.unsubscribers = <<>>,
                       !.bp.progressInterval = FALSE]
  IN BP_emitStateChange(w5)

BP_stop(w) ==
  LET w1 == [w EXCEPT !.bp.isPlaying = FALSE,
                      !.bp.currentPhase = "stopped"]
      w2 == Clock_stop(w1)
      w3 == Pad_allNotesOff(Bass_silence(PP_stop(w2)), w2.audioTime)
      w4 == Clock_unsubscribeAll(w3, w3.bp.unsubscribers)
      w5 == [w4 EXCEPT !.bp.unsubscribers = <<>>,
                       !.bp.progressInterval = FALSE]
  IN BP_emitStateChange(w5)

BP_onComplete(w, cb) ==
  [w EXCEPT !.bp.onCompleteCallbacks = Append(@, cb)]

BP_unsubComplete(w, cb) ==
  [w EXCEPT !.bp.onCompleteCallbacks = Filter(@, cb)]

BP_onStateChange(w, cb) ==
  [w EXCEPT !.bp.onStateChangeCallbacks = Append(@, cb)]

\* Mutant: the tests for intro and build give each other's phase.
BP_getPhaseForProgress_swapped(progress) ==
  IF progress * 100 < ARC_INTRO_END * BLOCK_DURATION_SECONDS THEN "build"
  ELSE IF progress * 100 < ARC_BUILD_END * BLOCK_DURATION_SECONDS THEN "intro"
  ELSE IF progress * 100 < ARC_OUTRO_START * BLOCK_DURATION_SECONDS THEN "main"
  ELSE "outro"

BP_getPhaseForProgress(progress) ==
  IF progress * 100 < ARC_INTRO_END * BLOCK_DURATION_SECONDS THEN "intro"
  ELSE IF progress * 100 < ARC_BUILD_END * BLOCK_DURATION_SECONDS THEN "build"
  ELSE IF progress * 100 < ARC_OUTRO_START * BLOCK_DURATION_SECONDS THEN "main"
  ELSE "outro"

\* The volumes of the switch of transitionToPhase, in percent.
PhaseVolumes ==
  [intro |-> [drums |-> 60, bass |-> 0, pads |-> 0],
   build |-> [drums |-> 70, bass |-> 40, pads |-> 20],
   main  |-> [drums |-> 80, bass |-> 60, pads |-> 40],
   outro |-> [drums |-> 60, bass |-> 30, pads |-> 20]]

BP_transitionToPhase(w, newPhase) ==
  LET w1 == [w EXCEPT !.bp.currentPhase = newPhase]
  IN IF newPhase \in DOMAIN PhaseVolumes
     THEN Pad_setVolume(
            Bass_setVolume(
              Drum_setVolume(w1, PhaseVolumes[newPhase].drums),
              PhaseVolumes[newPhase].bass),
            PhaseVolumes[newPhase].pads)
     ELSE w1

\* --------------------------------------------------------------- SetPlayer
SetPlayer_new == [blocks |-> <<>>,
                  blockPlayer |-> FALSE,
                  isPlaying |-> FALSE,
                  isPaused |-> FALSE,
                  currentBlockIndex |-> 0,
                  onStateChangeCallbacks |-> <<>>]

RECURSIVE SP_filterConfigured(_)
\* blocks.filter(b => b.configured)
SP_filterConfigured(blocks) ==
  IF blocks = <<>> THEN <<>>
  ELSE IF Head(blocks).configured
       THEN <<Head(blocks)>> \o SP_filterConfigured(Tail(blocks))
       ELSE SP_filterConfigured(Tail(blocks))

\* Mutant: the list is taken as given, unconfigured entries included.
SP_loadSet_noFilter(w, blocks) ==
  SP_emitStateChange(
    [w EXCEPT !.set.blocks = blocks,
              !.set.currentBlockIndex = 0,
              !.set.isPlaying = FALSE,
              !.set.isPaused = FALSE])

SP_loadSet(w, blocks) ==
  SP_emitStateChange(
    [w EXCEPT !.set.blocks = SP_filterConfigured(blocks),
              !.set.currentBlockIndex = 0,
              !.set.isPlaying = FALSE,
              !.set.isPaused = FALSE])

\* Mutant: stop() forgets to go back to the first block.
SP_stop_keepIndex(w) ==
  LET w1 == [w EXCEPT !.set.isPlaying = FALSE,
                      !.set.isPaused = FALSE]
      w2 == IF w1.set.blockPlayer THEN BP_stop(w1) ELSE w1
  IN AndThen(w2, SP_emitStateChange)

SP_stop(w) ==
  LET w1 == [w EXCEPT !.set.isPlaying = FALSE,
                      !.set.isPaused = FALSE,
                      !.set.currentBlockIndex = 0]
      w2 == IF w1.set.blockPlayer THEN BP_stop(w1) ELSE w1
  IN AndThen(w2, SP_emitStateChange)

\* Each call of playCurrentBlock makes a new completion closure; its identity
\* (what its unsubscribe filters on) is the least id no closure still
\* registered carries.
SP_freshCompleteCb(w) ==
  LET used == {cb.id : cb \in Range(w.bp.onCompleteCallbacks)}
      id == CHOOSE n \in 1..(Cardinality(used) + 1) :
              n \notin used /\ \A m \in 1..(n - 1) : m \in used
  IN [owner |-> "set", kind |-> "complete", id |-> id]

SP_stateCb == [owner |-> "set", kind |-> "state", id |-> 0]

SP_playCurrentBlock(w) ==
  IF w.set.currentBlockIndex >= Len(w.set.blocks) THEN SP_stop(w)
  ELSE LET block == w.set.blocks[w.set.currentBlockIndex + 1]
           \* new BlockPlayer(getClock(), ...) the first time
           w1 == [w EXCEPT !.set.blockPlayer = TRUE]
           w2 == BP_onComplete(w1, SP_freshCompleteCb(w1))
           w3 == BP_onStateChange(w2, SP_stateCb)
           w4 == BP_load(w3, [id |-> block.id,
                              configured |-> block.configured,
                              bpm |-> block.bpm,
                              style |-> block.style,
                              duration |-> BLOCK_DURATION_SECONDS])
       IN BP_play(w4)

SP_onBlockComplete(w) ==
  LET w1 == [w EXCEPT !.set.currentBlockIndex = @ + 1]
      w2 == IF w1.set.currentBlockIndex >= Len(w1.set.blocks)
            THEN SP_stop(w1)
            ELSE SP_playCurrentBlock(w1)
  IN AndThen(w2, SP_emitStateChange)

\* Mutant: a fresh start keeps the index an earlier jumpToBlock left.
SP_play_keepIndex(w) ==
  IF Len(w.set.blocks) = 0 THEN w
  ELSE LET w1 == IF w.set.isPaused
                 THEN SP_playCurrentBlock([w EXCEPT !.set.isPaused = FALSE])
                 ELSE IF ~w.set.isPlaying
                 THEN SP_playCurrentBlock([w EXCEPT !.set.isPlaying = TRUE])
                 ELSE w
       IN AndThen(w1, SP_emitStateChange)

SP_play(w) ==
  IF Len(w.set.blocks) = 0 THEN w
  ELSE LET w1 == IF w.set.isPaused
                 THEN SP_playCurrentBlock([w EXCEPT !.set.isPaused = FALSE])
                 ELSE IF ~w.set.isPlaying
                 THEN SP_playCurrentBlock(
                        [w EXCEPT !.set.isPlaying = TRUE,
                                  !.set.currentBlockIndex = 0])
                 ELSE w
       IN AndThen(w1, SP_emitStateChange)

\* Mutant: pause() sets the flag and leaves the Block Player running.
SP_pause_noBlockStop(w) ==
  IF ~w.set.isPlaying \/ w.set.isPaused THEN w
  ELSE SP_emitStateChange([w EXCEPT !.set.isPaused = TRUE])

SP_pause(w) ==
  IF ~w.set.isPlaying \/ w.set.isPaused THEN w
  ELSE LET w1 == [w EXCEPT !.set.isPaused = TRUE]
           w2 == IF w1.set.blockPlayer THEN BP_stop(w1) ELSE w1
       IN AndThen(w2, SP_emitStateChange)

\* Mutant: skip() does not stop the block that is playing.
SP_skip_noStop(w) ==
  IF ~w.set.isPlaying \/ Len(w.set.blocks) = 0 THEN w
  ELSE LET w2 == [w EXCEPT !.set.currentBlockIndex = @ + 1]
       IN IF w2.set.currentBlockIndex >= Len(w2.set.blocks)
          THEN SP_stop(w2)
          ELSE AndThen(SP_playCurrentBlock(w2), SP_emitStateChange)

\* Mutant: skip() does not look at the running flag.
SP_skip_unguarded(w) ==
  IF Len(w.set.blocks) = 0 THEN w
  ELSE AndThen(IF w.set.blockPlayer THEN BP_stop(w) ELSE w,
               LAMBDA w1 :
                 LET w2 == [w1 EXCEPT !.set.currentBlockIndex = @ + 1]
                 IN IF w2.set.currentBlockIndex >= Len(w2.set.blocks)
                    THEN SP_stop(w2)
                    ELSE AndThen(SP_playCurrentBlock(w2), SP_emitStateChange))

SP_skip(w) ==
  IF ~w.set.isPlaying \/ Len(w.set.blocks) = 0 THEN w
  ELSE AndThen(IF w.set.blockPlayer THEN BP_stop(w) ELSE w,
               LAMBDA w1 :
                 LET w2 == [w1 EXCEPT !.set.currentBlockIndex = @ + 1]
                 IN IF w2.set.currentBlockIndex >= Len(w2.set.blocks)
                    THEN SP_stop(w2)
                    ELSE AndThen(SP_playCurrentBlock(w2), SP_emitStateChange))

\* Mutant: jumpToBlock() does not stop the block that is playing.
SP_jumpToBlock_noStop(w, index) ==
  IF index < 0 \/ index >= Len(w.set.blocks) THEN w
  ELSE LET wasPlaying == w.set.isPlaying
           w2 == [w EXCEPT !.set.currentBlockIndex = index]
           w3 == IF wasPlaying THEN SP_playCurrentBlock(w2) ELSE w2
       IN AndThen(w3, SP_emitStateChange)

\* Mutant: jumpToBlock() returns without its closing emitStateChange().
SP_jumpToBlock_noEmit(w, index) ==
  IF index < 0 \/ index >= Len(w.set.blocks) THEN w
  ELSE LET wasPlaying == w.set.isPlaying
       IN AndThen(IF w.set.blockPlayer THEN BP_stop(w) ELSE w,
                  LAMBDA w1 :
                    LET w2 == [w1 EXCEPT !.set.currentBlockIndex = index]
                    IN IF wasPlaying THEN SP_playCurrentBlock(w2) ELSE w2)

\* Mutant: jumpToBlock() does not check the index against the set's length.
SP_jumpToBlock_unchecked(w, index) ==
  IF index < 0 THEN w
  ELSE LET wasPlaying == w.set.isPlaying
       IN AndThen(IF w.set.blockPlayer THEN BP_stop(w) ELSE w,
                  LAMBDA w1 :
                    LET w2 == [w1 EXCEPT !.set.currentBlockIndex = index]
                        w3 == IF wasPlaying THEN SP_playCurrentBlock(w2)
                              ELSE w2
                    IN AndThen(w3, SP_emitStateChange))

SP_jumpToBlock(w, index) ==
  IF index < 0 \/ index >= Len(w.set.blocks) THEN w
  ELSE LET wasPlaying == w.set.isPlaying
       IN AndThen(IF w.set.blockPlayer THEN BP_stop(w) ELSE w,
                  LAMBDA w1 :
                    LET w2 == [w1 EXCEPT !.set.currentBlockIndex = index]
                        w3 == IF wasPlaying THEN SP_playCurrentBlock(w2)
                              ELSE w2
                    IN AndThen(w3, SP_emitStateChange))

SP_onStateChange(w, l) ==
  [w EXCEPT !.set.onStateChangeCallbacks = Append(@, l)]

SP_unsubscribe(w, l) ==
  [w EXCEPT !.set.onStateChangeCallbacks = Filter(@, l)]

\* ------------------------------------- BlockPlayer: progress and completion
\* One completion callback.  The Set Player's closure is
\* "() => { unsubComplete(); this.onBlockComplete() }"; a listener of a
\* stand-alone Block Player only records the call.
BP_invokeComplete(w, cb) ==
  LET w1 == [w EXCEPT !.out.completed = Append(@, cb)]
  IN IF cb.owner = "set"
     THEN SP_onBlockComplete(BP_unsubComplete(w1, cb))
     ELSE w1

RECURSIVE BP_completeLoop(_, _)
\* "for (const cb of this.onCompleteCallbacks) cb()": the loop walks the array
\* object it started on.  unsubscribing replaces this.onCompleteCallbacks by a
\* filtered copy, and the only callback that registers another one (the Set
\* Player's closure) unsubscribes first, so the array walked never changes.
BP_completeLoop(w, cbs) ==
  IF cbs = <<>> \/ w.out.thrown THEN w
  ELSE BP_completeLoop(BP_invokeComplete(w, Head(cbs)), Tail(cbs))

\* Mutant: at progress 1.0 the listeners are called and the player runs on.
BP_updateProgress_noStop(w) ==
  LET progress == BP_getState(w).progress
      newPhase == BP_getPhaseForProgress(progress)
      w1 == IF newPhase # w.bp.currentPhase
            THEN BP_transitionToPhase(w, newPhase) ELSE w
  IN IF progress >= BLOCK_DURATION_SECONDS
     THEN BP_completeLoop(w1, w1.bp.onCompleteCallbacks)
     ELSE BP_emitStateChange(w1)

BP_updateProgress(w) ==
  LET progress == BP_getState(w).progress
      newPhase == BP_getPhaseForProgress(progress)
      w1 == IF newPhase # w.bp.currentPhase
            THEN BP_transitionToPhase(w, newPhase) ELSE w
  IN IF progress >= BLOCK_DURATION_SECONDS
     THEN AndThen(BP_stop(w1),
                  LAMBDA w2 : BP_completeLoop(w2, w2.bp.onCompleteCallbacks))
     ELSE BP_emitStateChange(w1)

\* ------------------------------------------------------ Clock: dispatching
\* The tick listeners outside code registers on a Clock.  A listener records
\* the call; some then throw, or call stop() or pause() on the Clock, or call
\* the unsubscribe function of the recording 16th-note listener.
TickCallback(kind, does) ==
  [owner |-> "ext", kind |-> kind, id |-> 1, does |-> does]

TickCallbacks ==
  {TickCallback("step", d) : d \in {"record", "throw", "stop", "pause", "unsub"}}
    \cup {TickCallback(k, d) : k \in {"beat", "bar"}, d \in {"record", "throw"}}

NoCallback == [owner |-> "none", kind |-> "none", id |-> 0]

\* One call "cb(n, time)" made while step `step` is dispatched.
Clock_invoke(w, cb, n, step, time) ==
  LET w1 == [w EXCEPT !.out.ticks = Append(@, Event("tick", cb, n, step, time))]
      did(x, ev) ==
        [x EXCEPT !.out.ticks = Append(@, Event(ev, cb, n, step, time))]
  IN CASE cb.owner = "bp" /\ cb.kind = "bar" ->
            BP_onBar([w1 EXCEPT !.bp.currentBar = n], n, time)
       [] cb.owner = "bp" /\ cb.kind = "step" -> BP_onStep(w1, n, time)
       [] cb.owner = "pp" -> PP_playStep(w1, n, time, MidDraws)
       [] cb.owner = "ext" /\ cb.does = "throw" ->
            [w1 EXCEPT !.out.thrown = TRUE]
       [] cb.owner = "ext" /\ cb.does = "stop" -> did(Clock_stop(w1), "stop")
       [] cb.owner = "ext" /\ cb.does = "pause" -> did(Clock_pause(w1), "pause")
       [] cb.owner = "ext" /\ cb.does = "unsub" ->
            did(Clock_unsubscribe(w1, TickCallback("step", "record")), "unsub")
       [] OTHER -> w1

\* Mutant: no try around the call of a listener.
Clock_catch_none(w) == w

\* "try { cb(...) } catch (e) { console.error(...) }"
Clock_catch(w) ==
  IF w.out.thrown
  THEN [w EXCEPT !.out.thrown = FALSE, !.out.errors = @ + 1]
  ELSE w

RECURSIVE Clock_invokeAll(_, _, _, _, _)
\* "for (const cb of this.on...Callbacks) { try { cb(n, time) } ... }": the
\* loop walks the array it started on (an unsubscribe puts a filtered copy in
\* the field), and the bar callbacks are given this.currentBar as it is when
\* each is called.
Clock_invokeAll(w, cbs, kind, step, time) ==
  IF cbs = <<>> \/ w.out.thrown THEN w
  ELSE LET n == CASE kind = "step" -> step
                  [] kind = "beat" -> step \div STEPS_PER_BEAT
                  [] OTHER -> w.clock.currentBar
       IN Clock_invokeAll(Clock_catch(Clock_invoke(w, Head(cbs), n, step, time)),
                          Tail(cbs), kind, step, time)

Clock_scheduleStep(w, step, time) ==
  LET w0 == [w EXCEPT !.out.ticks =
                        Append(@, Event("dispatch", NoCallback,
                                        w.clock.currentBar, step, time))]
      w1 == Clock_invokeAll(w0, w0.clock.onSixteenthCallbacks, "step", step, time)
      w2 == IF step % STEPS_PER_BEAT = 0
            THEN AndThen(w1, LAMBDA x :
                   Clock_invokeAll(x, x.clock.onBeatCallbacks, "beat", step, time))
            ELSE w1
  IN IF step = 0
     THEN AndThen(w2, LAMBDA x :
            Clock_invokeAll(x, x.clock.onBarCallbacks, "bar", step, time))
     ELSE w2

\* Mutant: the time of the next step is taken from the time of the scan.
Clock_advance_fromNow(w) ==
  LET w2 == [w EXCEPT !.clock.currentStep = @ + 1]
      w3 == IF w2.clock.currentStep >= STEPS_PER_BAR
            THEN [w2 EXCEPT !.clock.currentStep = 0,
                            !.clock.currentBar = @ + 1]
            ELSE w2
  IN [w3 EXCEPT !.clock.nextStepTime =
                   Max(@, w3.audioTime) + Clock_stepDuration(w3)]

\* Mutant: the bar ends one step late.
Clock_advance_longBar(w) ==
  LET w2 == [w EXCEPT !.clock.currentStep = @ + 1]
      w3 == IF w2.clock.currentStep > STEPS_PER_BAR
            THEN [w2 EXCEPT !.clock.currentStep = 0,
                            !.clock.currentBar = @ + 1]
            ELSE w2
  IN [w3 EXCEPT !.clock.nextStepTime = @ + Clock_stepDuration(w3)]

\* "Advance to next step" of schedule().
Clock_advance(w) ==
  LET w2 == [w EXCEPT !.clock.currentStep = @ + 1]
      w3 == IF w2.clock.currentStep >= STEPS_PER_BAR
            THEN [w2 EXCEPT !.clock.currentStep = 0,
                            !.clock.currentBar = @ + 1]
            ELSE w2
  IN [w3 EXCEPT !.clock.nextStepTime = @ + Clock_stepDuration(w3)]

RECURSIVE Clock_scheduleLoop(_, _)
\* "while (this.nextStepTime < lookaheadTime) { ... }"
Clock_scheduleLoop(w, lookaheadTime) ==
  IF w.out.thrown \/ ~(w.clock.nextStepTime < lookaheadTime) THEN w
  ELSE AndThen(Clock_scheduleStep(w, w.clock.currentStep, w.clock.nextStepTime),
               LAMBDA x : Clock_scheduleLoop(Clock_advance(x), lookaheadTime))

Clock_schedule(w) == Clock_scheduleLoop(w, w.audioTime + LOOKAHEAD_MS)

\* ----------------------------------------------------------- state machine
NoTick == [bar |-> -1, step |-> -1, time |-> -1]

NoHist == [last |-> NoTick, clean |-> FALSE, calls |-> 0]

\* The tempos handed to a Clock: those of the block editor.
ClockBpms == {BpmOf(i) : i \in 1..3}

\* The objects as constructed, around a Clock made with "new Clock(bpm)".
InitWith(bpm) ==
  /\ set = SetPlayer_new
  /\ bp = BlockPlayer_new
  /\ clock = Clock_new(bpm)
  /\ now = 0
  /\ audioTime = 0
  /\ out = NoOut
  /\ lastOp = [op |-> "new", arg |-> 0,
               pre |-> [isPlaying |-> FALSE, isPaused |-> FALSE, index |-> 0]]
  /\ hist = NoHist

\* getClock() makes the Clock of the players with "new Clock()".
Init == InitWith(BPM_DEFAULT)

\* The steps dispatched and the stop()/pause() calls of listeners among the
\* entries of a log.
Dispatched(ticks) == SelectSeq(ticks, LAMBDA e : e.ev = "dispatch")
Meddled(ticks) == SelectSeq(ticks, LAMBDA e : e.ev \in {"stop", "pause"})

\* The history after handler `op` has left the world w: the last step
\* dispatched since the Clock was started, and whether tempo and transport of
\* the Clock have been left alone since that step.
ClockCalls ==
  {"ck.start", "ck.stop", "ck.pause", "ck.resume", "ck.setBpm",
   "ck.subscribe", "ck.unsubscribe", "ck.dispose"}

HistAfter(op, w) ==
  LET wasRunning == clock.isPlaying /\ ~clock.isPaused
      isRunning == w.clock.isPlaying /\ ~w.clock.isPaused
      disp == Dispatched(w.out.ticks)
      h == [hist EXCEPT !.calls = IF op \in ClockCalls THEN @ + 1 ELSE @]
  IN IF ~w.clock.isPlaying
     THEN [h EXCEPT !.last = NoTick, !.clean = FALSE]
     ELSE IF isRunning /\ ~wasRunning /\ op # "ck.resume"
     THEN [h EXCEPT !.last = NoTick, !.clean = FALSE]
     ELSE IF op = "scan" /\ disp # <<>>
     THEN [h EXCEPT !.last = [bar |-> disp[Len(disp)].n,
                              step |-> disp[Len(disp)].step,
                              time |-> disp[Len(disp)].time],
                    !.clean = (Meddled(w.out.ticks) = <<>>)]
     ELSE IF \/ w.clock.bpm # clock.bpm
             \/ w.clock.isPaused # clock.isPaused
             \/ op \in {"ck.setBpm", "ck.pause", "ck.resume"}
             \/ Meddled(w.out.ticks) # <<>>
     THEN [h EXCEPT !.clean = FALSE]
     ELSE h

\* The step of the state machine that runs handler `op` with argument `arg`
\* and leaves the world w.
Do(op, arg, w) ==
  /\ set' = w.set
  /\ bp' = w.bp
  /\ clock' = w.clock
  /\ now' = w.now
  /\ audioTime' = w.audioTime
  /\ out' = w.out
  /\ hist' = HistAfter(op, w)
  /\ lastOp' = [op |-> op, arg |-> arg,
                pre |-> [isPlaying |-> set.isPlaying,
                         isPaused |-> set.isPaused,
                         index |-> set.currentBlockIndex]]

\* The cap on the subscriptions playCurrentBlock piles up.
CanStartBlock == Len(bp.onStateChangeCallbacks) <= MaxSubs

LoadSet(blocks) == Do("loadSet", blocks, SP_loadSet(World, blocks))

Play == CanStartBlock /\ Do("play", 0, SP_play(World))

Pause == Do("pause", 0, SP_pause(World))

Stop == Do("stop", 0, SP_stop(World))

Skip == CanStartBlock /\ Do("skip", 0, SP_skip(World))

JumpToBlock(index) ==
  CanStartBlock /\ Do("jumpToBlock", index, SP_jumpToBlock(World, index))

Subscribe(l) ==
  /\ l \notin Range(set.onStateChangeCallbacks)
  /\ Do("onStateChange", l, SP_onStateChange(World, l))

Unsubscribe(l) ==
  /\ l \in Range(set.onStateChangeCallbacks)
  /\ Do("unsubscribe", l, SP_unsubscribe(World, l))

\* Wall-clock time passes.
AdvanceTime ==
  /\ now + CoarseTicks <= MaxNow
  /\ Do("time", 0, [World EXCEPT !.now = @ + CoarseTicks])

\* The same, one unit at a time.
FineTime ==
  /\ now < MaxFineNow
  /\ Do("time", 1, [World EXCEPT !.now = @ + 1])

\* The 100 ms interval timer of the Block Player fires.
ProgressTimer ==
  /\ bp.progressInterval
  /\ CanStartBlock
  /\ Do("progress", 0, BP_updateProgress(World))

\* The units of AudioContext time between two firings of the scan timer:
\* none, one, or a long stall of the host.
AudioJumps == {0, 1, 2}

\* The interval timer of the Clock fires, k units of time after the last
\* event.  (The time of the AudioContext is read by start(), resume() and
\* schedule() only, so it is let pass here only.)
ClockScan(k) ==
  /\ clock.schedulerTimer
  /\ audioTime + k * AudioUnitMs <= MaxAudioUnits * AudioUnitMs
  /\ Do("scan", k, Clock_schedule([World EXCEPT !.audioTime = @ + k * AudioUnitMs]))

\* The Set Player with its Block Player, driven through its transport.
Next ==
  \/ \E blocks \in BlockInputs : LoadSet(blocks)
  \/ Play
  \/ Pause
  \/ Stop
  \/ Skip
  \/ \E index \in -1..MaxInput : JumpToBlock(index)
  \/ \E l \in ListenerIds : Subscribe(l)
  \/ \E l \in ListenerIds : Unsubscribe(l)
  \/ AdvanceTime
  \/ ProgressTimer

Spec == Init /\ [][Next]_vars

\* The same, with the scan timer of the Clock firing on time.
NextScan ==
  \/ Next
  \/ ClockScan(0)

SpecScan == Init /\ [][NextScan]_vars

\* The last value of `now` where a whole set is played: the time its blocks
\* take one after the other, and one jump more.
MaxSetNow ==
  MaxInput * ((BLOCK_DURATION_SECONDS + TickSeconds - 1) \div TickSeconds)
    + CoarseTicks

\* The block that is playing has reached its end and the interval timer has
\* not fired since.
BlockOver ==
  /\ bp.progressInterval
  /\ BP_getState(World).progress >= BLOCK_DURATION_SECONDS

\* Wall-clock time passes, for as long as a set takes.  The interval timer
\* has a period of 100 ms: it fires at the end of a block before the time of
\* the model moves on.
SetTime ==
  /\ now + CoarseTicks <= MaxSetNow
  /\ ~BlockOver
  /\ Do("time", 0, [World EXCEPT !.now = @ + CoarseTicks])

\* The 100 ms interval timer of the Block Player fires, whatever the number
\* of listeners it holds.
SetProgressTimer ==
  /\ bp.progressInterval
  /\ Do("progress", 0, BP_updateProgress(World))

\* The Set Player played through: time goes on and the interval timer of the
\* Block Player (setInterval) keeps firing for as long as it is set.
NextSet ==
  \/ \E blocks \in BlockInputs : LoadSet(blocks)
  \/ Play
  \/ Pause
  \/ Stop
  \/ Skip
  \/ \E index \in -1..MaxInput : JumpToBlock(index)
  \/ SetTime
  \/ SetProgressTimer

\* The steps of SetTime and of SetProgressTimer, told by what they do to
\* `now` and to `lastOp`.
TimePasses ==
  /\ now + CoarseTicks <= MaxSetNow
  /\ ~BlockOver
  /\ now' = now + CoarseTicks

TimerFires ==
  /\ bp.progressInterval
  /\ lastOp' = [op |-> "progress", arg |-> 0,
                pre |-> [isPlaying |-> set.isPlaying,
                         isPaused |-> set.isPaused,
                         index |-> set.currentBlockIndex]]

SpecSet ==
  /\ Init
  /\ [][NextSet]_vars
  /\ WF_now(TimePasses)
  /\ WF_lastOp(TimerFires)

\* The Set Player with one more listener outside code may register: one that
\* throws.
NextThrow ==
  \/ Next
  \/ Subscribe(ThrowingListener)
  \/ Unsubscribe(ThrowingListener)

SpecThrow == Init /\ [][NextThrow]_vars

\* ------------------------------------------- a Block Player used on its own
ExtCompleteCb(l) == [owner |-> "ext", kind |-> "complete", id |-> l]

BPLoad(block) == Do("bp.load", block, BP_load(World, block))

BPPlay == Do("bp.play", 0, BP_play(World))

BPStop == Do("bp.stop", 0, BP_stop(World))

BPOnComplete(l) ==
  /\ ExtCompleteCb(l) \notin Range(bp.onCompleteCallbacks)
  /\ Do("bp.onComplete", l, BP_onComplete(World, ExtCompleteCb(l)))

BPUnsubComplete(l) ==
  /\ ExtCompleteCb(l) \in Range(bp.onCompleteCallbacks)
  /\ Do("bp.unsubComplete", l, BP_unsubComplete(World, ExtCompleteCb(l)))

NextBP ==
  \/ \E block \in BlockConfigs : BPLoad(block)
  \/ BPPlay
  \/ BPStop
  \/ \E l \in ListenerIds : BPOnComplete(l)
  \/ \E l \in ListenerIds : BPUnsubComplete(l)
  \/ AdvanceTime
  \/ ProgressTimer
  \/ ClockScan(0)

SpecBP == Init /\ [][NextBP]_vars

\* The same Block Player, watched through the phases of its block.
NextArc ==
  \/ \E block \in BlockConfigs : BPLoad(block)
  \/ BPPlay
  \/ BPStop
  \/ FineTime
  \/ ProgressTimer
  \/ ClockScan(0)

SpecArc == Init /\ [][NextArc]_vars

\* The configurations of a Block Player watched bar by bar: those of
\* BlockConfigs, all at the bpm of the first block.
BarConfigs ==
  { [block EXCEPT !.bpm = BpmOf(1)] : block \in BlockConfigs }

\* The length of a bar at the tempo of the Clock.
BarMs(w) == STEPS_PER_BAR * Clock_stepDuration(w)

\* The timer of the Clock fires after a bar of AudioContext time has passed
\* (a throttled timer): the scan dispatches the sixteen steps that came due.
BarScan ==
  /\ clock.schedulerTimer
  /\ audioTime + BarMs(World) <= MaxBars * BarMs(World)
  /\ Do("scan", STEPS_PER_BAR,
        Clock_schedule([World EXCEPT !.audioTime = @ + BarMs(World)]))

\* Wall-clock time passes, PhaseTicks units at a time.
PhaseTime ==
  /\ now + PhaseTicks <= MaxFineNow
  /\ Do("time", PhaseTicks, [World EXCEPT !.now = @ + PhaseTicks])

\* The same Block Player, watched through the bars of its block.
NextBar ==
  \/ \E block \in BarConfigs : BPLoad(block)
  \/ BPPlay
  \/ PhaseTime
  \/ ProgressTimer
  \/ BarScan

SpecBar == Init /\ [][NextBar]_vars

\* ------------------------------------------------ a PadSynth used on its own
\* The chords, notes, times and volumes outside code hands to it.
PadChords == {DeepHouseChords[1], DeepHouseChords[3]}
PadNotes == UNION {Range(getChordNotes(c, 3)) : c \in PadChords}
PadTimes == {0, 10}
PadVolumes == {0, 20, 150}

\* arg.active: whether the Map had the note when the call was made.
PadNoteOn(note, time) ==
  Do("pad.noteOn",
     [note |-> note, time |-> time, active |-> note \in bp.sound.pads.voices],
     Pad_noteOn(World, note, time))

PadNoteOff(note, time) ==
  Do("pad.noteOff",
     [note |-> note, time |-> time, active |-> note \in bp.sound.pads.voices],
     Pad_noteOff(World, note, time))

PadChordOn(chordName, time) ==
  Do("pad.chordOn", chordName, Pad_chordOn(World, chordName, time, 3))

PadChordOff(chordName, time) ==
  Do("pad.chordOff", chordName, Pad_chordOff(World, chordName, time, 3))

PadAllNotesOff == Do("pad.allNotesOff", 0, Pad_allNotesOff(World, audioTime))

PadSilence == Do("pad.silence", 0, Pad_silence(World))

PadSetVolume(volume) ==
  Do("pad.setVolume", volume, Pad_setVolume(World, volume))

NextPad ==
  \/ \E note \in PadNotes, time \in PadTimes : PadNoteOn(note, time)
  \/ \E note \in PadNotes, time \in PadTimes : PadNoteOff(note, time)
  \/ \E c \in PadChords, time \in PadTimes : PadChordOn(c, time)
  \/ \E c \in PadChords, time \in PadTimes : PadChordOff(c, time)
  \/ PadAllNotesOff
  \/ PadSilence
  \/ \E volume \in PadVolumes : PadSetVolume(volume)

SpecPad == Init /\ [][NextPad]_vars

\* ----------------------------------------------- a BassSynth used on its own
BassNotes == {DeepHouseBass[0], DeepHouseBass[10], <<"H", "2">>}

BassNoteOn(note, time) ==
  Do("bass.noteOn",
     [note |-> note, time |-> time, sounding |-> bp.sound.bass.isPlaying],
     Bass_noteOn(World, note, time))

BassNoteOff(time) == Do("bass.noteOff", time, Bass_noteOff(World, time))

BassSilence == Do("bass.silence", 0, Bass_silence(World))

BassSetVolume(volume) ==
  Do("bass.setVolume", volume, Bass_setVolume(World, volume))

BassDispose == Do("bass.dispose", 0, Bass_dispose(World))

NextBass ==
  \/ \E note \in BassNotes, time \in PadTimes : BassNoteOn(note, time)
  \/ \E time \in PadTimes : BassNoteOff(time)
  \/ BassSilence
  \/ \E volume \in PadVolumes : BassSetVolume(volume)
  \/ BassDispose

SpecBass == Init /\ [][NextBass]_vars

\* ------------------------------------------- a PatternPlayer used on its own
\* A pattern that is one velocity (in tenths) on all steps, and one that has
\* a step too few.
FlatPattern(v) == [s \in 0..15 |-> v]
ShortPattern == [s \in 0..14 |-> 10]

\* The steps, the tick time and the draws of the calls of playStep.
PatternSteps == {0, 4, 7, 15}
RandomDraws == [1..3 -> 0..(RandomSteps - 1)]

PPPlayStep(step, rand) ==
  Do("pp.playStep", [step |-> step, time |-> START_DELAY_MS, rand |-> rand],
     PP_playStep(World, step, START_DELAY_MS, rand))

PPSetDrumPattern(drum, pattern) ==
  Do("pp.setDrumPattern", <<drum, pattern>>,
     PP_setDrumPattern(World, drum, pattern))

PPResetPatterns == Do("pp.resetPatterns", 0, PP_resetPatterns(World))

NextPattern ==
  \/ \E step \in PatternSteps, rand \in RandomDraws : PPPlayStep(step, rand)
  \/ \E pattern \in {FlatPattern(1), ShortPattern} :
        PPSetDrumPattern("snare", pattern)
  \/ PPResetPatterns

SpecPattern == Init /\ [][NextPattern]_vars

\* The same Pattern Player, its style and the patterns of its lanes changed
\* between the sixteen steps.
LaneStyles == {"techno", "progressiveHouse", "ambient"}
LanePatterns == {FlatPattern(0), FlatPattern(1), ShortPattern, <<>>}

PPSetStyle(styleName) == Do("pp.setStyle", styleName, PP_setStyle(World, styleName))

NextLanes ==
  \/ \E step \in 0..(STEPS_PER_BAR - 1) : PPPlayStep(step, MidDraws)
  \/ \E drum \in {"kick", "hatOpen"}, pattern \in LanePatterns :
        PPSetDrumPattern(drum, pattern)
  \/ \E styleName \in LaneStyles : PPSetStyle(styleName)
  \/ PPResetPatterns

SpecLanes == Init /\ [][NextLanes]_vars

\* ------------------------------------------------- noteUtils used on its own
\* A call of a function of noteUtils: `out` is what it returned.
Returned(op, arg, result) ==
  Do(op, arg, [World EXCEPT !.out = [result |-> result]])

MidiNotes == 0..127

\* Texts that are not the name of a note, and names the table does not have.
BadNoteNames ==
  { <<>>, <<"C">>, <<"4">>, <<"H", "4">>, <<"4", "C">>, <<"C", "-", "1">>,
    <<"C", "#">>, <<"C", "b", "4">>, <<"E", "#", "2">>, <<"f", "b", "3">>,
    <<"B", "#", "1", "0">>, <<"C", "4", " ">>, <<"C", "#", "#", "4">> }

\* The names handed to the parser: the one midiToNoteName has just returned,
\* and the bad ones.
NoteNameInputs ==
  BadNoteNames \cup (IF lastOp.op = "midiToNoteName" THEN {out.result} ELSE {})

MidiToNoteName(midi) == Returned("midiToNoteName", midi, midiToNoteName(midi))

NoteNameToMidi(noteName) ==
  Returned("noteNameToMidi", noteName, noteNameToMidi(noteName))

NoteNameToFrequency(noteName) ==
  Returned("noteNameToFrequency", noteName, noteNameToFrequency(noteName))

\* The chord names handed to getChordNotes, as root and quality: the roots
\* of the table of notes and the qualities of the switch, and roots and
\* qualities that are in neither.
ChordRoots == DOMAIN NOTE_OFFSETS
BadChordRoots == { <<"C", "b">>, <<"E", "#">>, <<"H">>, <<"c">>, <<>> }
ChordQualities ==
  { <<>>, <<"m", "a", "j">>, <<"m">>, <<"m", "i", "n">>, <<"7">>,
    <<"d", "o", "m", "7">>, <<"m", "a", "j", "7">>, <<"m", "7">>,
    <<"m", "i", "n", "7">>, <<"d", "i", "m">>, <<"a", "u", "g">>, <<"5">>,
    <<"s", "u", "s", "2">>, <<"s", "u", "s", "4">> }
BadChordQualities ==
  { <<"m", "9">>, <<"6">>, <<"a", "d", "d", "9">>, <<"m", " ">>, <<"+">> }
\* From the octave chordOn has by default.
ChordOctaves == 3..MaxOctave

GetChordNotes(root, quality, octave) ==
  Returned("getChordNotes",
           [quality |-> quality, octave |-> octave, root |-> root],
           getChordNotes(root \o quality, octave))

\* The style names of blocks: those of the registry, and others.
StyleInputs ==
  {"deepHouse", "progressiveHouse", "techno", "", "DeepHouse", "house",
   "trance", "constructor", "toString"}

GetStyle(name) == Returned("getStyle", name, getStyle(name))

NextNotes ==
  \/ \E midi \in MidiNotes : MidiToNoteName(midi)
  \/ \E noteName \in NoteNameInputs : NoteNameToMidi(noteName)
  \/ \E noteName \in NoteNameInputs : NoteNameToFrequency(noteName)
  \/ \E root \in ChordRoots \cup BadChordRoots,
        quality \in ChordQualities \cup BadChordQualities,
        octave \in ChordOctaves : GetChordNotes(root, quality, octave)
  \/ \E name \in StyleInputs : GetStyle(name)

SpecNotes == Init /\ [][NextNotes]_vars

\* --------------------------------------------------- a Clock used on its own
TickSubs ==
  Len(clock.onSixteenthCallbacks) + Len(clock.onBeatCallbacks)
    + Len(clock.onBarCallbacks)

Subscribed(c) ==
  Range(c.onSixteenthCallbacks) \cup Range(c.onBeatCallbacks)
    \cup Range(c.onBarCallbacks)

CanCall == hist.calls < MaxClockCalls

CkStart == CanCall /\ Do("ck.start", 0, Clock_start(World))

CkStop == CanCall /\ Do("ck.stop", 0, Clock_stop(World))

CkPause == CanCall /\ Do("ck.pause", 0, Clock_pause(World))

CkResume == CanCall /\ Do("ck.resume", 0, Clock_resume(World))

CkSetBpm(bpm) == CanCall /\ Do("ck.setBpm", bpm, Clock_setBpm(World, bpm))

CkSubscribe(cb) ==
  /\ CanCall
  /\ TickSubs < MaxTickSubs
  /\ cb \notin Subscribed(clock)
  /\ Do("ck.subscribe", cb,
        CASE cb.kind = "bar" -> Clock_onBar(World, cb)
          [] cb.kind = "beat" -> Clock_onBeat(World, cb)
          [] OTHER -> Clock_onSixteenth(World, cb))

CkUnsubscribe(cb) ==
  /\ CanCall
  /\ cb \in Subscribed(clock)
  /\ Do("ck.unsubscribe", cb, Clock_unsubscribe(World, cb))

NextClock ==
  \/ CkStart
  \/ CkStop
  \/ CkPause
  \/ CkResume
  \/ \E bpm \in ClockBpms : CkSetBpm(bpm)
  \/ \E cb \in TickCallbacks : CkSubscribe(cb)
  \/ \E cb \in TickCallbacks : CkUnsubscribe(cb)
  \/ \E k \in AudioJumps : ClockScan(k)

SpecClock == (\E bpm \in ClockBpms : InitWith(bpm)) /\ [][NextClock]_vars

CkDispose == CanCall /\ Do("ck.dispose", 0, Clock_dispose(World))

\* The same Clock, which outside code may also dispose of.
NextTransport ==
  \/ NextClock
  \/ CkDispose

SpecTransport ==
  (\E bpm \in ClockBpms : InitWith(bpm)) /\ [][NextTransport]_vars

\* ------------------------------------------------------------ the claims
\* The world a step leaves.
WorldNext ==
  [set |-> set', bp |-> bp', clock |-> clock', now |-> now',
   audioTime |-> audioTime', out |-> NoOut]

\* Block number i (from 0) of the loaded set is playing from its start.
PlayingFromStart(w, i) ==
  /\ w.bp.isPlaying
  /\ w.bp.config # NoConfig
  /\ w.bp.config.id = w.set.blocks[i + 1].id
  /\ w.bp.startTime = w.now
  /\ w.bp.currentPhase = "intro"
  /\ w.bp.progressInterval
  /\ w.clock.schedulerTimer

\* The Block Player is stopped and its Clock delivers no tick.
BlockStopped(w) ==
  /\ ~w.bp.isPlaying
  /\ w.bp.currentPhase = "stopped"
  /\ ~w.bp.progressInterval
  /\ ~w.clock.schedulerTimer
  /\ ~w.clock.isPlaying

\* C1: whenever a block completes while the Set Player is playing block i of
\* n, the Set Player advances by exactly one: afterwards block i+1 is the
\* current block and is playing if i+1 < n, and otherwise the set is stopped
\* at index 0 -- whatever play, pause, skip and jumpToBlock calls came before.
C1_AdvanceByOne ==
  [][ ( /\ lastOp'.op = "progress"
        /\ out'.completed # <<>>
        /\ set.isPlaying /\ ~set.isPaused )
      => LET i == set.currentBlockIndex
             n == Len(set.blocks)
         IN IF i + 1 < n
            THEN /\ set'.currentBlockIndex = i + 1
                 /\ set'.isPlaying
                 /\ PlayingFromStart(WorldNext, i + 1)
            ELSE /\ ~set'.isPlaying
                 /\ set'.currentBlockIndex = 0
                 /\ BlockStopped(WorldNext) ]_vars

\* C2: a timer firing that finds progress at 1.0 stops the player (not
\* running, phase stopped, progress timer cleared) and calls every registered
\* completion listener exactly once, in order; no other step -- stop() and
\* timer firings below 1.0 included -- calls a completion listener.
C2_CompleteOnce ==
  [][ IF /\ lastOp'.op = "progress"
         /\ BP_getState(World).progress >= BLOCK_DURATION_SECONDS
      THEN /\ out'.completed = bp.onCompleteCallbacks
           /\ BlockStopped(WorldNext)
      ELSE out'.completed = <<>> ]_vars

C2_Witness ==
  /\ lastOp.op = "progress"
  /\ out.completed # <<>>
  /\ out.completed = bp.onCompleteCallbacks
  /\ BlockStopped(World)

\* C3: skip() while the set is running at block i of n leaves block i+1
\* current and playing from its start when i+1 < n, and the set stopped at
\* index 0 when i+1 = n.
C3_Skip ==
  [][ (lastOp'.op = "skip" /\ set.isPlaying)
      => LET i == set.currentBlockIndex
             n == Len(set.blocks)
         IN IF i + 1 < n
            THEN /\ set'.currentBlockIndex = i + 1
                 /\ set'.isPlaying
                 /\ PlayingFromStart(WorldNext, i + 1)
            ELSE /\ i + 1 = n
                 /\ ~set'.isPlaying
                 /\ set'.currentBlockIndex = 0
                 /\ BlockStopped(WorldNext) ]_vars

C3_Witness ==
  /\ lastOp.op = "skip"
  /\ lastOp.pre.isPlaying
  /\ set.currentBlockIndex = lastOp.pre.index + 1
  /\ now > 0
  /\ PlayingFromStart(World, set.currentBlockIndex)

\* The Block Player is playing block number i (from 0) of the loaded set.
Playing(w, i) ==
  /\ w.bp.isPlaying
  /\ w.bp.config # NoConfig
  /\ w.bp.config.id = w.set.blocks[i + 1].id
  /\ w.bp.progressInterval
  /\ w.clock.schedulerTimer

C5_Pause ==
  [][ lastOp'.op = "pause"
      => IF set.isPlaying /\ ~set.isPaused
         THEN /\ set'.isPaused
              /\ BlockStopped(WorldNext)
              /\ clock'.onSixteenthCallbacks = <<>>
              /\ clock'.onBarCallbacks = <<>>
              /\ set'.currentBlockIndex = set.currentBlockIndex
              /\ set'.isPlaying
              /\ set'.blocks = set.blocks
         ELSE /\ set' = set
              /\ bp' = bp
              /\ clock' = clock
              /\ out' = NoOut ]_vars

C5_Witness ==
  /\ lastOp.op = "pause"
  /\ lastOp.pre.isPlaying
  /\ ~lastOp.pre.isPaused
  /\ set.isPaused
  /\ set.isPlaying
  /\ BlockStopped(World)

\* C6: stop() leaves the set not running, not paused, at index 0, the Block
\* Player (if there is one) stopped and the block list as it was.
C6_Stop ==
  [][ lastOp'.op = "stop"
      => /\ ~set'.isPlaying
         /\ ~set'.isPaused
         /\ set'.currentBlockIndex = 0
         /\ (set'.blockPlayer => BlockStopped(WorldNext))
         /\ set'.blocks = set.blocks ]_vars

C6_Witness ==
  /\ lastOp.op = "stop"
  /\ lastOp.pre.isPlaying
  /\ lastOp.pre.index > 0
  /\ set.blockPlayer
  /\ ~set.isPlaying
  /\ set.currentBlockIndex = 0
  /\ BlockStopped(World)

\* C7: jumpToBlock(i) with 0 <= i < totalBlocks makes i the index; a running
\* set then plays block i from its start, a set that was not running starts
\* no block and stays not running and not paused.
C7_Jump ==
  [][ ( /\ lastOp'.op = "jumpToBlock"
        /\ 0 <= lastOp'.arg
        /\ lastOp'.arg < Len(set.blocks) )
      => /\ set'.currentBlockIndex = lastOp'.arg
         /\ IF set.isPlaying
            THEN /\ set'.isPlaying
                 /\ PlayingFromStart(WorldNext, lastOp'.arg)
            ELSE /\ ~bp'.isPlaying
                 /\ ~bp'.progressInterval
                 /\ ~set'.isPlaying
                 /\ ~set'.isPaused ]_vars

C7_Witness ==
  /\ lastOp.op = "jumpToBlock"
  /\ lastOp.pre.isPlaying
  /\ lastOp.arg # lastOp.pre.index
  /\ set.currentBlockIndex = lastOp.arg
  /\ now > 0
  /\ PlayingFromStart(World, lastOp.arg)

\* C8: loadSet(blocks) holds exactly the configured entries of blocks, in
\* their order, at index 0, not running and not paused; and at no time is an
\* unconfigured block held or current.
C8_LoadSet ==
  [][ /\ lastOp'.op = "loadSet"
         => /\ set'.blocks = SelectSeq(lastOp'.arg, LAMBDA b : b.configured)
            /\ Len(set'.blocks) =
                 Cardinality({i \in 1..Len(lastOp'.arg) : lastOp'.arg[i].configured})
            /\ SP_getState(WorldNext).totalBlocks = Len(set'.blocks)
            /\ set'.currentBlockIndex = 0
            /\ ~set'.isPlaying
            /\ ~set'.isPaused
      /\ \A i \in 1..Len(set'.blocks) : set'.blocks[i].configured
      /\ SP_getCurrentBlock(WorldNext) # NoConfig
           => SP_getCurrentBlock(WorldNext).configured ]_vars

C8_Witness ==
  /\ lastOp.op = "loadSet"
  /\ ~lastOp.arg[1].configured
  /\ Len(set.blocks) >= 1
  /\ Len(set.blocks) < Len(lastOp.arg)
  /\ set.blocks[1] = lastOp.arg[2]
  /\ lastOp.pre.isPlaying
  /\ lastOp.pre.index > 0

\* C9: skip() on an empty or not running set, jumpToBlock(i) with i out of
\* range and play() on an empty set change nothing, start or stop no block
\* and notify nobody.
C9_InvalidNoOp ==
  [][ ( \/ /\ lastOp'.op = "skip"
           /\ (Len(set.blocks) = 0 \/ ~set.isPlaying)
        \/ /\ lastOp'.op = "jumpToBlock"
           /\ (lastOp'.arg < 0 \/ lastOp'.arg >= Len(set.blocks))
        \/ /\ lastOp'.op = "play"
           /\ Len(set.blocks) = 0 )
      => /\ set' = set
         /\ bp' = bp
         /\ clock' = clock
         /\ out' = NoOut ]_vars

C9_Witness ==
  /\ lastOp.op = "jumpToBlock"
  /\ lastOp.arg >= Len(set.blocks)
  /\ Len(set.blocks) > 0
  /\ set.isPlaying
  /\ ~set.isPaused
  /\ bp.isPlaying
  /\ now > bp.startTime
  /\ out = NoOut

\* C10: every step that changes running, paused, the index or the number of
\* blocks has notified every registered listener, and the last state each
\* received is getState() on return.
C10_Notify ==
  [][ ( \/ set'.isPlaying # set.isPlaying
        \/ set'.isPaused # set.isPaused
        \/ set'.currentBlockIndex # set.currentBlockIndex
        \/ Len(set'.blocks) # Len(set.blocks) )
      => \A l \in Range(set'.onStateChangeCallbacks) :
           out'.spNotified[l] = SP_getState(WorldNext) ]_vars

C10_Witness ==
  /\ lastOp.op = "progress"
  /\ lastOp.pre.isPlaying
  /\ set.currentBlockIndex # lastOp.pre.index
  /\ set.onStateChangeCallbacks # <<>>
  /\ \A l \in Range(set.onStateChangeCallbacks) :
       out.spNotified[l] = SP_getState(World)

\* C11: a state-change listener that throws stops nothing: every handler
\* that notifies returns normally and has given every registered listener
\* that does not throw the state on return, and a timer firing that finds
\* the block finished still calls the completion callbacks.
C11_ListenerIsolated ==
  [][ /\ out'.spEmits > 0
         => /\ ~out'.thrown
            /\ \A l \in Range(set'.onStateChangeCallbacks) \ {ThrowingListener} :
                 out'.spNotified[l] = SP_getState(WorldNext)
      /\ ( /\ lastOp'.op = "progress"
           /\ BP_getState(World).progress >= BLOCK_DURATION_SECONDS )
         => out'.completed = bp.onCompleteCallbacks ]_vars

\* ------------------------------------------------- the claims on the Clock
\* 60 / b / 4 seconds, in milliseconds.
StepMs(b) == 15000 \div b

\* The steps a scan at time t finds inside its lookahead window.
DueSteps(c, t) ==
  IF c.nextStepTime >= t + LOOKAHEAD_MS THEN 0
  ELSE (t + LOOKAHEAD_MS - c.nextStepTime - 1) \div StepMs(c.bpm) + 1

\* No registered listener calls back into the Clock.
Benign(c) == \A cb \in Subscribed(c) : cb.does \in {"record", "throw"}

Ticks(log) == SelectSeq(log, LAMBDA e : e.ev = "tick")

\* The listeners of c due when step `step` is dispatched, in the order of
\* their calls.
DueListeners(c, step) ==
  c.onSixteenthCallbacks
    \o (IF step % 4 = 0 THEN c.onBeatCallbacks ELSE <<>>)
    \o (IF step = 0 THEN c.onBarCallbacks ELSE <<>>)

\* C12: when a tick listener throws, every other listener due for that step
\* is still called, the scan dispatches every step inside its window, step
\* counter and nextStepTime advance by the steps dispatched, nothing reaches
\* the timer and the timer stays armed.
C12_ThrowIsolated ==
  [][ (lastOp'.op = "scan" /\ Benign(clock))
      => LET k == DueSteps(clock, audioTime')
             disp == Dispatched(out'.ticks)
         IN /\ Len(disp) = k
            /\ \A i \in 1..Len(disp) :
                 \A cb \in Range(DueListeners(clock, disp[i].step)) :
                   \E j \in 1..Len(out'.ticks) :
                     /\ out'.ticks[j].ev = "tick"
                     /\ out'.ticks[j].cb = cb
                     /\ out'.ticks[j].time = disp[i].time
            /\ clock'.currentBar * STEPS_PER_BAR + clock'.currentStep
                 = clock.currentBar * STEPS_PER_BAR + clock.currentStep + k
            /\ clock'.nextStepTime = clock.nextStepTime + k * StepMs(clock.bpm)
            /\ ~out'.thrown
            /\ clock'.schedulerTimer ]_vars

C12_Witness ==
  /\ lastOp.op = "scan"
  /\ out.errors > 0
  /\ Len(Dispatched(out.ticks)) >= 2
  /\ clock.schedulerTimer
  /\ \E i, j \in 1..Len(out.ticks) :
       /\ i < j
       /\ out.ticks[i].ev = "tick" /\ out.ticks[i].cb.does = "throw"
       /\ out.ticks[j].ev = "tick" /\ out.ticks[j].cb.does = "record"
       /\ out.ticks[j].cb.kind = out.ticks[i].cb.kind
       /\ out.ticks[j].time = out.ticks[i].time

\* C13: while the Clock runs with no pause, stop or tempo change, each
\* timestamp given to the 16th-note listeners is the one before it plus
\* 60/b/4 s, within a scan and from one scan to the next, however late the
\* scan; setBpm(n) sets the tempo to clamp(n, 60, 200), leaves the time
\* already computed for the next step as it is, and the steps after that one
\* are spaced by the new tempo.
C13_Spacing ==
  [][ /\ (lastOp'.op = "scan" /\ Meddled(out'.ticks) = <<>>)
         => LET disp == Dispatched(out'.ticks)
            IN /\ \A i \in 1..(Len(disp) - 1) :
                    disp[i + 1].time - disp[i].time = StepMs(clock.bpm)
               /\ (disp # <<>> /\ hist.clean /\ hist.last # NoTick)
                    => disp[1].time - hist.last.time = StepMs(clock.bpm)
               /\ \A j \in 1..Len(out'.ticks) :
                    out'.ticks[j].ev = "tick"
                      => \E i \in 1..Len(disp) :
                           out'.ticks[j].time = disp[i].time
      /\ lastOp'.op = "ck.setBpm"
         => /\ clock'.bpm = Max(BPM_MIN, Min(BPM_MAX, lastOp'.arg))
            /\ clock'.nextStepTime = clock.nextStepTime
            /\ hist'.last = hist.last ]_vars

C13_Witness ==
  /\ lastOp.op = "scan"
  /\ clock.bpm = BPM_MAX
  /\ hist.clean
  /\ Len(Dispatched(out.ticks)) >= 2
  /\ clock.currentBar * STEPS_PER_BAR + clock.currentStep
       > Len(Dispatched(out.ticks))
  /\ \E j \in 1..Len(out.ticks) :
       out.ticks[j].ev = "tick" /\ out.ticks[j].cb.kind = "step"

RECURSIVE ExpectedLog(_, _, _, _, _)
\* What k steps from (bar, step) at time `time` deliver to the listeners of
\* c: per step the 16th-note listeners with the step, then on every fourth
\* step the beat listeners with step/4, then on step 0 the bar listeners with
\* the bar, all with the time of the step.
ExpectedLog(c, k, bar, step, time) ==
  IF k = 0 THEN <<>>
  ELSE LET calls(cbs, n) ==
             [i \in 1..Len(cbs) |-> Event("tick", cbs[i], n, step, time)]
           last == (step = STEPS_PER_BAR - 1)
       IN <<Event("dispatch", NoCallback, bar, step, time)>>
            \o calls(c.onSixteenthCallbacks, step)
            \o (IF step % 4 = 0 THEN calls(c.onBeatCallbacks, step \div 4)
                ELSE <<>>)
            \o (IF step = 0 THEN calls(c.onBarCallbacks, bar) ELSE <<>>)
            \o ExpectedLog(c, k - 1,
                           IF last THEN bar + 1 ELSE bar,
                           IF last THEN 0 ELSE step + 1,
                           time + StepMs(c.bpm))

\* C14: a scan calls, for each step s it dispatches, the 16th-note listeners
\* with (s, t), then iff s mod 4 = 0 the beat listeners with (s/4, t), then
\* iff s = 0 the bar listeners with (bar, t), in that order; step 15 is
\* followed by step 0 of the next bar.
C14_Order ==
  [][ (lastOp'.op = "scan" /\ Benign(clock))
      => out'.ticks = ExpectedLog(clock, DueSteps(clock, audioTime'),
                                  clock.currentBar, clock.currentStep,
                                  clock.nextStepTime) ]_vars

C14_Witness ==
  /\ lastOp.op = "scan"
  /\ \E i, j, k \in 1..Len(out.ticks) :
       /\ i < j /\ j < k
       /\ out.ticks[i].ev = "tick" /\ out.ticks[i].cb.kind = "step"
       /\ out.ticks[j].ev = "tick" /\ out.ticks[j].cb.kind = "beat"
       /\ out.ticks[k].ev = "tick" /\ out.ticks[k].cb.kind = "bar"
       /\ out.ticks[i].time = out.ticks[k].time
       /\ out.ticks[j].time = out.ticks[k].time
       /\ out.ticks[k].n = 1

\* The entries of a log before the first stop() a listener called.
RECURSIVE UntilStop(_)
UntilStop(log) ==
  IF log = <<>> \/ Head(log).ev = "stop" THEN <<>>
  ELSE <<Head(log)>> \o UntilStop(Tail(log))

\* (bar, step) of b follows that of a.
Follows(a, b) ==
  b.bar * STEPS_PER_BAR + b.step = a.bar * STEPS_PER_BAR + a.step + 1

\* C15: between a start() and the next stop(), the first step dispatched is
\* (0,0) and every step dispatched is the successor of the one dispatched
\* before it, across scans, pause() and resume().
C15_Successor ==
  [][ lastOp'.op = "scan"
      => LET disp == Dispatched(UntilStop(out'.ticks))
             at(i) == [bar |-> disp[i].n, step |-> disp[i].step]
         IN /\ disp # <<>>
               => IF hist.last = NoTick
                  THEN at(1) = [bar |-> 0, step |-> 0]
                  ELSE Follows(hist.last, at(1))
            /\ \A i \in 1..(Len(disp) - 1) : Follows(at(i), at(i + 1)) ]_vars

\* C16: stop() leaves the Clock not running, not paused, at step 0 of bar 0
\* with its timer cleared; no listener is called after a stop() -- one a
\* listener made during a scan included -- and none while the Clock is not
\* running.
C16_StopSilences ==
  [][ /\ lastOp'.op = "ck.stop"
         => /\ ~clock'.isPlaying /\ ~clock'.isPaused
            /\ clock'.currentStep = 0 /\ clock'.currentBar = 0
            /\ ~clock'.schedulerTimer
      /\ lastOp'.op = "scan"
         => /\ Ticks(out'.ticks) # <<>> => clock.isPlaying
            /\ Len(UntilStop(out'.ticks)) < Len(out'.ticks)
                 => /\ \A j \in (Len(UntilStop(out'.ticks)) + 2)..Len(out'.ticks) :
                         out'.ticks[j].ev # "tick"
                    /\ ~clock'.isPlaying /\ ~clock'.isPaused
                    /\ clock'.currentStep = 0 /\ clock'.currentBar = 0 ]_vars

\* C17: a listener is called only while it is subscribed: never after its
\* unsubscribe function has returned, whether outside code called it between
\* scans or another listener called it during a dispatch; unsubscribing one
\* listener leaves every other subscription in place.
C17_Unsubscribe ==
  [][ /\ lastOp'.op = "scan"
         => \A j \in 1..Len(out'.ticks) :
              out'.ticks[j].ev = "tick"
                => /\ out'.ticks[j].cb \in Subscribed(clock)
                   /\ ~ \E i \in 1..(j - 1) :
                          /\ out'.ticks[i].ev = "unsub"
                          /\ out'.ticks[j].cb = TickCallback("step", "record")
      /\ lastOp'.op = "ck.unsubscribe"
         => Subscribed(clock') = Subscribed(clock) \ {lastOp'.arg} ]_vars

\* C18: the tempo of a Clock lies in [60, 200].
C18_BpmRange == clock.bpm \in BPM_MIN..BPM_MAX

\* ------------------------------------------ the claims on the Block Player
\* C19: play() before any load(), and play() while already playing, change
\* nothing: no field of the Block Player (elapsed timer, progress timer,
\* phase, subscriptions), nothing of its Clock, and no listener is called.
C19_PlayNoOp ==
  [][ (lastOp'.op = "bp.play" /\ (bp.config = NoConfig \/ bp.isPlaying))
      => /\ bp' = bp
         /\ clock' = clock
         /\ out' = NoOut ]_vars

C19_Witness ==
  /\ lastOp.op = "bp.play"
  /\ bp.isPlaying
  /\ now > bp.startTime
  /\ bp.currentPhase = "main"
  /\ Len(clock.onSixteenthCallbacks) = 2
  /\ out = NoOut

\* What stop() leaves of the generators at the time it returns.
Silent(w) ==
  /\ w.bp.sound.bass.gate = "zero"
  /\ w.bp.sound.pads.voices = {}
  /\ w.bp.sound.padTailEnd <= w.audioTime
  /\ w.bp.sound.drumEnd <= w.audioTime

\* C20: when stop() returns the bass gate is at zero, no pad voice is held
\* or in its release tail, and no drum sound is scheduled or sounding.
C20_StopIsSilent ==
  [][ lastOp'.op = "bp.stop" => Silent(WorldNext) ]_vars

\* The phase the thresholds give a progress of p seconds of the block, for
\* p in [0, 1) of the block; "none" for a p of the whole block or more.
PhaseOf(p) ==
  IF p * 100 < 10 * BLOCK_DURATION_SECONDS THEN "intro"
  ELSE IF p * 100 < 20 * BLOCK_DURATION_SECONDS THEN "build"
  ELSE IF p * 100 < 85 * BLOCK_DURATION_SECONDS THEN "main"
  ELSE IF p < BLOCK_DURATION_SECONDS THEN "outro"
  ELSE "none"

OnArc(s) ==
  IF s.isPlaying THEN s.phase = PhaseOf(s.progress)
  ELSE s.phase = "stopped" /\ s.progress = 0

\* C21: the state getState() returns, and the state a listener is handed,
\* has the phase the thresholds give its own progress while the player runs
\* (intro below 10%, build below 20%, main below 85%, outro below 100%), and
\* phase stopped with progress 0 while it does not.
C21_PhaseOfProgress ==
  /\ OnArc(BP_getState(World))
  /\ out.bpState # NoState => OnArc(out.bpState)

\* The place of a phase on the arc of a block.
Rank(phase) ==
  CASE phase = "intro" -> 1
    [] phase = "build" -> 2
    [] phase = "main"  -> 3
    [] phase = "outro" -> 4
    [] OTHER           -> 0

\* C22: the phase of the Block Player changes in three ways only: play()
\* takes it from stopped to intro; the progress timer takes it, within the
\* run play() began, from a phase to a later one of intro, build, main,
\* outro; stop() or the end of the block takes it to stopped.
C22_PhaseForward ==
  [][bp'.currentPhase # bp.currentPhase =>
       \/ bp'.currentPhase = "stopped" /\ ~bp'.isPlaying
       \/ /\ bp.currentPhase = "stopped"
          /\ bp'.currentPhase = "intro"
          /\ lastOp'.op = "bp.play"
       \/ /\ bp.currentPhase # "stopped"
          /\ Rank(bp.currentPhase) < Rank(bp'.currentPhase)
          /\ lastOp'.op = "progress"
          /\ bp'.startTime = bp.startTime]_vars

\* The timer has moved a run that play() began in intro on to outro.
C22_Witness ==
  /\ lastOp.op = "progress"
  /\ bp.isPlaying
  /\ bp.currentPhase = "outro"
  /\ now < bp.startTime + BLOCK_DURATION_SECONDS \div TickSeconds

\* C23: noteOn for a note the Map of voices has leaves the PadSynth as it
\* was (no voice is made, the Map is unchanged), and after every call each
\* note name has at most one voice that was started and not released, the
\* one the Map has.
C23_NoRetrigger ==
  [][/\ lastOp'.op = "pad.noteOn" /\ lastOp'.arg.active
          => bp'.sound.pads = bp.sound.pads
     /\ \A note \in PadNotes :
          CopiesIn(note, bp'.sound.pads.held)
            = IF note \in bp'.sound.pads.voices THEN 1 ELSE 0]_vars

\* noteOn has been called for a note that had a voice, with other voices
\* held as well.
C23_Witness ==
  /\ lastOp.op = "pad.noteOn"
  /\ lastOp.arg.active
  /\ Cardinality(bp.sound.pads.voices) >= 2

\* C24: a BassSynth has at most one set of nodes made and not disposed of,
\* whatever noteOn, noteOff, silence and setVolume calls were made; and a
\* noteOn while a note sounds makes no nodes: it leaves the one note of the
\* synth at the frequency of the new name, reached by a glide from the old
\* one.
C24_OneNodeSet ==
  [][/\ bp'.sound.bass.nodeSets <= 1
     /\ bp'.sound.bass.isPlaying => bp'.sound.bass.nodeSets = 1
     /\ lastOp'.op = "bass.noteOn" /\ lastOp'.arg.sounding
          => /\ bp'.sound.bass.nodeSets = bp.sound.bass.nodeSets
             /\ bp'.sound.bass.currentFrequency
                  = noteNameToFrequency(lastOp'.arg.note)
             /\ bp'.sound.bass.glideFrom = bp.sound.bass.currentFrequency
             /\ bp'.sound.bass.isPlaying]_vars

\* noteOn for G2 has been called while C2 sounded.
C24_Witness ==
  /\ lastOp.op = "bass.noteOn"
  /\ lastOp.arg.sounding
  /\ bp.sound.bass.glideFrom # NoGlide
  /\ bp.sound.bass.glideFrom # bp.sound.bass.currentFrequency

\* C25: the name midiToNoteName gives a MIDI integer m of 0..127 parses back
\* to m, and its frequency is midiToFrequency(m).
C25_RoundTrip ==
  [][/\ lastOp.op = "midiToNoteName"
     /\ lastOp'.op \in {"noteNameToMidi", "noteNameToFrequency"}
     /\ lastOp'.arg = out.result
       => /\ lastOp'.op = "noteNameToMidi" => out'.result = lastOp.arg
          /\ lastOp'.op = "noteNameToFrequency"
               => out'.result = midiToFrequency(lastOp.arg)]_vars

\* The semitones the claim gives each quality.
IntervalsOf(quality) ==
  CASE quality = <<>> -> <<0, 4, 7>>
    [] quality = <<"m">> -> <<0, 3, 7>>
    [] quality = <<"7">> -> <<0, 4, 7, 10>>
    [] quality = <<"m", "a", "j", "7">> -> <<0, 4, 7, 11>>
    [] quality = <<"m", "7">> -> <<0, 3, 7, 10>>
    [] quality = <<"d", "i", "m">> -> <<0, 3, 6>>
    [] quality = <<"a", "u", "g">> -> <<0, 4, 8>>
    [] quality = <<"5">> -> <<0, 7>>
    [] quality = <<"s", "u", "s", "2">> -> <<0, 2, 7>>
    [] quality = <<"s", "u", "s", "4">> -> <<0, 5, 7>>

\* The semitone of a root above the C of its octave: that of its letter,
\* one more for a sharp, one less for a flat.
SemitoneOf(root) ==
  LET letter == CASE root[1] = "C" -> 0 [] root[1] = "D" -> 2
                  [] root[1] = "E" -> 4 [] root[1] = "F" -> 5
                  [] root[1] = "G" -> 7 [] root[1] = "A" -> 9
                  [] root[1] = "B" -> 11
  IN IF Len(root) = 1 THEN letter
     ELSE IF root[2] = "#" THEN letter + 1 ELSE letter - 1

\* The sharp-spelled name of the note s semitones above the C of an octave.
SharpName(s, octave) ==
  LET names == << <<"C">>, <<"C", "#">>, <<"D">>, <<"D", "#">>, <<"E">>,
                  <<"F">>, <<"F", "#">>, <<"G">>, <<"G", "#">>, <<"A">>,
                  <<"A", "#">>, <<"B">> >>
      o == octave + (s \div 12)
  IN names[(s % 12) + 1] \o (IF o < 10 THEN <<DIGITS[o + 1]>>
                             ELSE <<DIGITS[(o \div 10) + 1], DIGITS[(o % 10) + 1]>>)

\* C26: for a root the table of notes has and a quality the claim lists,
\* getChordNotes returns, in order, the sharp-spelled names of the notes at
\* the quality's semitones above the root in the given octave, in the next
\* octave where they pass B; and the two examples of the claim.
C26_ChordNotes ==
  [][/\ lastOp'.op = "getChordNotes"
          /\ lastOp'.arg.root \in ChordRoots
          /\ lastOp'.arg.quality \in ChordQualities
          /\ lastOp'.arg.quality \in
               { <<>>, <<"m">>, <<"7">>, <<"m", "a", "j", "7">>, <<"m", "7">>,
                 <<"d", "i", "m">>, <<"a", "u", "g">>, <<"5">>,
                 <<"s", "u", "s", "2">>, <<"s", "u", "s", "4">> }
          => out'.result =
               [i \in 1..Len(IntervalsOf(lastOp'.arg.quality)) |->
                  SharpName(SemitoneOf(lastOp'.arg.root)
                              + IntervalsOf(lastOp'.arg.quality)[i],
                            lastOp'.arg.octave)]
     /\ getChordNotes(<<"C", "m", "7">>, 3)
          = << <<"C", "3">>, <<"D", "#", "3">>, <<"G", "3">>, <<"A", "#", "3">> >>
     /\ getChordNotes(<<"F">>, 4) = << <<"F", "4">>, <<"A", "4">>, <<"C", "5">> >>]_vars

\* getChordNotes has returned a chord of a flat root whose last note lies
\* in the next octave.
C26_Witness ==
  /\ lastOp.op = "getChordNotes"
  /\ lastOp.arg = [quality |-> <<"m", "7">>, octave |-> 3, root |-> <<"B", "b">>]
  /\ out.result = << <<"A", "#", "3">>, <<"C", "#", "4">>, <<"F", "4">>,
                     <<"G", "#", "4">> >>

\* C27: a text that is not the name of a note the table has resolves to
\* MIDI 60; a chord of a known root with a quality the switch does not have
\* resolves to the major triad of the root; a style name the registry does
\* not have resolves to the deepHouse style.
C27_Fallback ==
  [][/\ lastOp'.op = "noteNameToMidi" /\ lastOp'.arg \in BadNoteNames
          => out'.result = 60
     /\ lastOp'.op = "getChordNotes"
          /\ lastOp'.arg.root \in ChordRoots
          /\ lastOp'.arg.quality \in BadChordQualities
          => out'.result =
               [i \in 1..3 |->
                  SharpName(SemitoneOf(lastOp'.arg.root) + <<0, 4, 7>>[i],
                            lastOp'.arg.octave)]
     /\ lastOp'.op = "getStyle"
          /\ lastOp'.arg \notin {"deepHouse", "progressiveHouse", "techno"}
          => out'.result = deepHouse]_vars

\* The clamp of a velocity to [0.1, 1.0].
Clamped(x) ==
  IF x < VelocityOne \div 10 THEN VelocityOne \div 10
  ELSE IF x > VelocityOne THEN VelocityOne ELSE x

\* C28: every velocity playStep hands to the drums lies in [0.1, 1.0] and is
\* the clamp of a value within 0.1 of the velocity the pattern has for that
\* drum and step, and the time it hands over is within 3 ms of the time of
\* the tick.
C28_Humanize ==
  [][lastOp'.op = "pp.playStep" =>
       \A i \in 1..Len(out'.drums) :
         LET call == out'.drums[i]
             v == bp.patternPlayer.currentPatterns[call.drum][lastOp'.arg.step]
                    * (VelocityOne \div 10)
         IN /\ v > 0
            /\ call.velocity >= VelocityOne \div 10
            /\ call.velocity <= VelocityOne
            /\ \E x \in (v - VelocityOne \div 10)..(v + VelocityOne \div 10) :
                 call.velocity = Clamped(x)
            /\ call.time >= (lastOp'.arg.time - 3) * 1000
            /\ call.time <= (lastOp'.arg.time + 3) * 1000]_vars

\* playStep has handed over the floor 0.1 for a pattern velocity of 0.1
\* drawn down, the ceiling 1.0 for one of 1.0 drawn up, and a time before
\* that of the tick.
C28_Witness ==
  /\ lastOp.op = "pp.playStep"
  /\ \E i \in 1..Len(out.drums) :
       /\ out.drums[i].drum = "snare"
       /\ out.drums[i].velocity = VelocityOne \div 10
       /\ 2 * Draw(lastOp.arg.rand, i + 1) < RandomSteps
       /\ out.drums[i].time < lastOp.arg.time * 1000
  /\ \E i \in 1..Len(out.drums) :
       /\ out.drums[i].drum = "kick"
       /\ out.drums[i].velocity = VelocityOne
       /\ 2 * Draw(lastOp.arg.rand, i + 1) > RandomSteps

\* The master volumes the claim gives each phase, in percent.
TargetVolumes(phase) ==
  CASE phase = "intro" -> [drums |-> 60, bass |-> 0, pads |-> 0]
    [] phase = "build" -> [drums |-> 70, bass |-> 40, pads |-> 20]
    [] phase = "main"  -> [drums |-> 80, bass |-> 60, pads |-> 40]
    [] phase = "outro" -> [drums |-> 60, bass |-> 30, pads |-> 20]

\* C29: while the Block Player plays, every generator that has its master
\* gain node has it at the volume of the current phase: intro 60/0/0, build
\* 70/40/20, main 80/60/40, outro 60/30/20 percent for drums/bass/pads.
C29_PhaseVolumes ==
  bp.isPlaying =>
    /\ bp.sound.drums.masterGain
         => bp.sound.drums.volume = TargetVolumes(bp.currentPhase).drums
    /\ bp.sound.bass.osc1
         => bp.sound.bass.volume = TargetVolumes(bp.currentPhase).bass
    /\ bp.sound.pads.masterGain
         => bp.sound.pads.volume = TargetVolumes(bp.currentPhase).pads

\* The bar ticks handed to the Block Player among the entries of a log.
BarTicks(ticks) ==
  SelectSeq(ticks, LAMBDA e : e.ev = "tick" /\ e.cb = BP_barCb)

RECURSIVE ChordCalls(_, _)
\* The calls on the pads that go with bar ticks under chords `chords`: for
\* each bar that is a multiple of barsPerChord, all notes off at the time of
\* the tick, then progression[floor(bar / barsPerChord) mod length] on, 10 ms
\* later, at octave 3.
ChordCalls(barTicks, chords) ==
  IF barTicks = <<>> THEN <<>>
  ELSE LET e == Head(barTicks)
           chord == chords.chords[((e.n \div chords.barsPerChord)
                                   % Len(chords.chords)) + 1]
           rest == ChordCalls(Tail(barTicks), chords)
       IN IF e.n % chords.barsPerChord = 0
          THEN << [op |-> "allNotesOff", time |-> e.time],
                  [op |-> "chordOn", chord |-> chord, time |-> e.time + 10,
                   octave |-> 3] >> \o rest
          ELSE rest

\* A scan in which the Block Player handles bar ticks in a phase of
\* `phases` makes exactly the calls of ChordCalls on the pads, and leaves
\* sounding the notes of the last chord and no other; a scan in any other
\* phase makes no call on the pads and leaves their voices alone.
BarChordIn(phases) ==
  lastOp'.op = "scan" /\ bp.isPlaying =>
     LET calls == ChordCalls(BarTicks(out'.ticks), bp.style.chords)
     IN IF bp.currentPhase \in phases
        THEN /\ out'.pads = calls
             /\ calls # <<>> =>
                  bp'.sound.pads.voices =
                    Range(getChordNotes(calls[Len(calls)].chord, 3))
             /\ calls = <<>> =>
                  bp'.sound.pads.voices = bp.sound.pads.voices
        ELSE /\ out'.pads = <<>>
             /\ bp'.sound.pads.voices = bp.sound.pads.voices

\* C30 as stated: on a bar tick handled in build, main or outro, if bar mod
\* barsPerChord = 0 all sounding pad notes are released at the tick time and
\* chord progression[floor(bar / barsPerChord) mod length] is triggered 10 ms
\* later; on other bars, and in intro, nothing is released or triggered.
C30_BarChord_AsStated == [][BarChordIn({"build", "main", "outro"})]_vars

\* C30: on a bar tick the Block Player handles in build or main, if bar mod
\* barsPerChord = 0 it releases all sounding pad notes at the tick time and
\* triggers chord progression[floor(bar / barsPerChord) mod length] 10 ms
\* later; on other bars, and in intro and in outro, it releases and triggers
\* nothing.
C30_BarChord == [][BarChordIn({"build", "main"})]_vars

\* A scan in main has handed bar 8 of a deepHouse block to the Block Player:
\* the progression of four chords, two bars each, is back at its first
\* chord, and the four notes of that chord are the ones sounding.
C30_Witness ==
  /\ lastOp.op = "scan"
  /\ bp.isPlaying
  /\ bp.currentPhase = "main"
  /\ bp.style.name = "deepHouse"
  /\ \E i \in 1..Len(out.ticks) :
       /\ out.ticks[i].ev = "tick"
       /\ out.ticks[i].cb = BP_barCb
       /\ out.ticks[i].n = 8
       /\ out.pads = << [op |-> "allNotesOff", time |-> out.ticks[i].time],
                        [op |-> "chordOn", chord |-> DeepHouseChords[1],
                         time |-> out.ticks[i].time + 10, octave |-> 3] >>
  /\ Cardinality(bp.sound.pads.voices) = 4

\* The 16th-note ticks handed to the Block Player among the entries of a log.
StepTicks(ticks) ==
  SelectSeq(ticks, LAMBDA e : e.ev = "tick" /\ e.cb = BP_stepCb)

RECURSIVE BassCalls(_, _)
\* The calls on the bass that go with 16th-note ticks under bass line
\* `bassPattern`: for each step that has a note, noteOff at the time of the
\* tick, then noteOn of the note 5 ms later.
BassCalls(stepTicks, bassPattern) ==
  IF stepTicks = <<>> THEN <<>>
  ELSE LET e == Head(stepTicks)
           rest == BassCalls(Tail(stepTicks), bassPattern)
       IN IF e.n \in DOMAIN bassPattern
          THEN << [op |-> "noteOff", time |-> e.time],
                  [op |-> "noteOn", note |-> bassPattern[e.n],
                   time |-> e.time + 5] >> \o rest
          ELSE rest

\* C31: a scan in which the Block Player handles 16th-note ticks outside
\* intro makes, for each tick whose step has a note in the bass line of the
\* style, bass.noteOff(time) and then bass.noteOn(note, time + 5 ms), once,
\* and no other call on the bass; in intro, and when the player is stopped,
\* a scan makes no call on the bass.
C31_BassStep ==
  [][lastOp'.op = "scan" =>
       IF bp.isPlaying /\ bp.currentPhase # "intro"
       THEN out'.bass = BassCalls(StepTicks(out'.ticks), bp.style.bass)
       ELSE out'.bass = <<>>]_vars

\* A scan in main has handed the sixteen steps of a bar of a techno block to
\* the Block Player: the eight notes of the bass line were each released
\* and played, the G1 of step 8 among them.
C31_Witness ==
  /\ lastOp.op = "scan"
  /\ bp.isPlaying
  /\ bp.style.name = "techno"
  /\ bp.currentPhase = "main"
  /\ Len(StepTicks(out.ticks)) = 16
  /\ Len(out.bass) = 16
  /\ \E i \in 1..Len(out.ticks) :
       /\ out.ticks[i].ev = "tick" /\ out.ticks[i].cb = BP_stepCb
       /\ out.ticks[i].n = 8
       /\ \E j \in 1..(Len(out.bass) - 1) :
            /\ out.bass[j] = [op |-> "noteOff", time |-> out.ticks[i].time]
            /\ out.bass[j + 1] = [op |-> "noteOn", note |-> <<"G", "1">>,
                                  time |-> out.ticks[i].time + 5]

\* C32: pause() leaves the Clock at its step and bar, and the play() that
\* follows it leaves the block index as it is, starts the Block Player anew
\* (elapsed time 0, phase intro) and has the Clock running from the step and
\* bar it was paused at.
C32_PauseResume ==
  [][/\ lastOp'.op = "pause" /\ set.isPlaying /\ ~set.isPaused
          => /\ clock'.currentStep = clock.currentStep
             /\ clock'.currentBar = clock.currentBar
     /\ lastOp'.op = "play" /\ lastOp.op = "pause"
          /\ lastOp.pre.isPlaying /\ ~lastOp.pre.isPaused
          => /\ set'.currentBlockIndex = set.currentBlockIndex
             /\ set'.isPlaying /\ ~set'.isPaused
             /\ bp'.isPlaying
             /\ bp'.startTime = now'
             /\ bp'.currentPhase = "intro"
             /\ clock'.isPlaying /\ ~clock'.isPaused
             /\ clock'.currentStep = clock.currentStep
             /\ clock'.currentBar = clock.currentBar]_vars

\* The lanes playStep has called, and the lanes with a velocity above 0 at
\* step `step` of patterns `patterns`.
LanesCalled(calls) == {calls[i].drum : i \in 1..Len(calls)}
LanesOn(patterns, step) == {drum \in Range(DrumOrder) : patterns[drum][step] > 0}

\* The Pattern Player's patterns after a step, as the claim has them: a
\* 16-element override replaces the pattern of its lane, an override of
\* another length changes nothing, setStyle() (and those of `resets`) puts
\* the defaults of the style in place, anything else leaves the patterns.
LanePatternsStep(resets) ==
  LET pp == bp.patternPlayer
      pp1 == bp'.patternPlayer
  IN /\ lastOp'.op = "pp.playStep" =>
          /\ LanesCalled(out'.drums) = LanesOn(pp.currentPatterns, lastOp'.arg.step)
          /\ Len(out'.drums) = Cardinality(LanesCalled(out'.drums))
          /\ pp1.currentPatterns = pp.currentPatterns
     /\ lastOp'.op = "pp.setDrumPattern" =>
          pp1.currentPatterns =
            IF Cardinality(DOMAIN lastOp'.arg[2]) = 16
            THEN [pp.currentPatterns EXCEPT ![lastOp'.arg[1]] = lastOp'.arg[2]]
            ELSE pp.currentPatterns
     /\ lastOp'.op = "pp.setStyle" =>
          pp1.currentPatterns = getStyle(lastOp'.arg).drums
     /\ lastOp'.op \in resets => pp1.currentPatterns = pp1.style.drums
     /\ lastOp'.op \notin {"pp.playStep", "pp.setDrumPattern", "pp.setStyle"}
                            \cup resets =>
          pp1.currentPatterns = pp.currentPatterns
     /\ pp1.style = getStyle(pp1.style.name)
     /\ styles[pp1.style.name] = pp1.style

\* C33 as stated: playStep calls the drum of a lane iff the lane's effective
\* pattern is above 0 at the step, the effective pattern being the last
\* 16-element override since the last setStyle(), else the default of the
\* style; other overrides are ignored, setStyle() discards the overrides,
\* and the data of the style never changes.
C33_Lanes_AsStated == [][LanePatternsStep({})]_vars

\* C33: playStep calls the drum of a lane iff the lane's effective pattern
\* is above 0 at the step, the effective pattern being the last 16-element
\* override since the last setStyle() or resetPatterns(), else the default
\* of the style; other overrides are ignored, setStyle() and
\* resetPatterns() discard the overrides, and the data of the style never
\* changes.
C33_Lanes == [][LanePatternsStep({"pp.resetPatterns"})]_vars

\* playStep has called no kick at a step where the techno style has one, the
\* kick lane being overridden with silence, and has called the other lanes
\* the style has there.
C33_Witness ==
  /\ lastOp.op = "pp.playStep"
  /\ bp.patternPlayer.style.name = "techno"
  /\ bp.patternPlayer.style.drums.kick[lastOp.arg.step] > 0
  /\ bp.patternPlayer.currentPatterns.kick = FlatPattern(0)
  /\ LanesCalled(out.drums) =
       LanesOn(bp.patternPlayer.style.drums, lastOp.arg.step) \ {"kick"}
  /\ LanesCalled(out.drums) # {}

\* C34: in every reachable state the Block Player is playing, with its Clock
\* running, exactly when the Set Player is running and not paused.
C34_PlayingIffRunning ==
  /\ bp.isPlaying <=> (set.isPlaying /\ ~set.isPaused)
  /\ bp.isPlaying => clock.isPlaying /\ ~clock.isPaused

\* C35: the Block Player never holds more than one completion listener and
\* one state-change listener of the Set Player.
C35_OneListener ==
  /\ Cardinality({i \in DOMAIN bp.onCompleteCallbacks :
                    bp.onCompleteCallbacks[i].owner = "set"}) <= 1
  /\ Cardinality({i \in DOMAIN bp.onStateChangeCallbacks :
                    bp.onStateChangeCallbacks[i].owner = "set"}) <= 1

\* C36: in every reachable state of the Set Player paused implies running,
\* the current index is a position of the loaded set (0 when the set is
\* empty), and getCurrentBlock() returns null for the empty set only.
C36_SetState ==
  LET state == SP_getState(World)
  IN /\ state.isPaused => state.isPlaying
     /\ state.totalBlocks > 0
          => state.currentBlockIndex \in 0..(state.totalBlocks - 1)
     /\ state.totalBlocks = 0 => state.currentBlockIndex = 0
     /\ SP_getCurrentBlock(World) = NoConfig <=> state.totalBlocks = 0
     /\ state.totalBlocks > 0
          => SP_getCurrentBlock(World) = set.blocks[set.currentBlockIndex + 1]

\* A paused Set Player on the last block of a set of two.
C36_Witness ==
  /\ set.isPaused
  /\ Len(set.blocks) = MaxInput
  /\ set.currentBlockIndex = MaxInput - 1
  /\ lastOp.op = "pause"

\* play() has just started a stopped set of at least one block, early enough
\* for the whole set to fit in the time the model lets pass.
SetStarted(n) ==
  /\ lastOp.op = "play"
  /\ ~lastOp.pre.isPlaying
  /\ Len(set.blocks) = n
  /\ set.isPlaying /\ ~set.isPaused
  /\ now + n * (BLOCK_DURATION_SECONDS \div TickSeconds) + CoarseTicks
       <= MaxSetNow

\* A transport call has been made (a play() that started a stopped set is the
\* call the claim begins with).
TransportCall ==
  \/ lastOp.op \in {"loadSet", "pause", "stop", "skip", "jumpToBlock"}
  \/ lastOp.op = "play" /\ lastOp.pre.isPlaying

\* Block i has just been played to its completion, and its successor plays
\* from its start.
CompletedInto(i) ==
  /\ lastOp.op = "progress"
  /\ lastOp.pre.isPlaying /\ ~lastOp.pre.isPaused
  /\ lastOp.pre.index = i - 1
  /\ set.isPlaying /\ ~set.isPaused
  /\ set.currentBlockIndex = i
  /\ PlayingFromStart(World, i)

\* The last block, of index i, has just been played to its completion and
\* the set is stopped.
SetEnded(i) ==
  /\ lastOp.op = "progress"
  /\ lastOp.pre.isPlaying /\ ~lastOp.pre.isPaused
  /\ lastOp.pre.index = i
  /\ ~set.isPlaying /\ ~set.isPaused
  /\ set.currentBlockIndex = 0
  /\ BlockStopped(World)

\* C37: after play() on a stopped set of n >= 1 blocks, and with no further
\* transport call, the blocks are played to completion one after the other
\* (block 0 is playing, each completion starts the next block) and at last
\* the set is stopped with running=false, paused=false and index 0.
C37_PlaysThrough ==
  /\ [](SetStarted(1) =>
          /\ PlayingFromStart(World, 0)
          /\ <>(TransportCall \/ SetEnded(0)))
  /\ [](SetStarted(2) =>
          /\ PlayingFromStart(World, 0)
          /\ <>(\/ TransportCall
                \/ /\ CompletedInto(1)
                   /\ <>(TransportCall \/ SetEnded(1))))

\* How many times listener cb is subscribed in a list of the Clock.
Subscriptions(callbacks, cb) ==
  Cardinality({i \in DOMAIN callbacks : callbacks[i] = cb})

\* C38: in every reachable state of the Block Player, not running, phase
\* stopped, no progress timer and no Clock subscription of the player or of
\* its Pattern Sequencer are one and the same; while it runs the player holds
\* exactly one bar and one 16th-note subscription and its Pattern Sequencer
\* one 16th-note subscription.
C38_BlockPlayerState ==
  LET bars == Subscriptions(clock.onBarCallbacks, BP_barCb)
      steps == Subscriptions(clock.onSixteenthCallbacks, BP_stepCb)
      drums == Subscriptions(clock.onSixteenthCallbacks, PP_cb)
      none == /\ bars = 0 /\ steps = 0 /\ drums = 0
              /\ bp.unsubscribers = <<>>
              /\ bp.patternPlayer.unsubscribers = <<>>
  IN /\ ~bp.isPlaying <=> bp.currentPhase = "stopped"
     /\ ~bp.isPlaying <=> ~bp.progressInterval
     /\ ~bp.isPlaying <=> none
     /\ bp.isPlaying =>
          /\ bars = 1 /\ steps = 1 /\ drums = 1
          /\ bp.unsubscribers = <<BP_barCb, BP_stepCb>>
          /\ bp.patternPlayer.unsubscribers = <<PP_cb>>
          /\ bp.patternPlayer.isPlaying

\* A block played to its end after an earlier one was stopped and replayed.
C38_Witness ==
  /\ lastOp.op = "progress"
  /\ ~bp.isPlaying
  /\ bp.currentPhase = "stopped"
  /\ out.completed # <<>>
  /\ clock.onSixteenthCallbacks = <<>>

\* The chords triggered on the pads among the calls of a log.
ChordsOn(calls) == SelectSeq(calls, LAMBDA c : c.op = "chordOn")

\* C39: while the Block Player plays, the voices of the pads are none or the
\* notes of the chord triggered last: a step that triggers chords leaves
\* exactly the notes of the last of them, any other step leaves the voices as
\* they were or none; once the Block Player is stopped there is none.
C39_PadVoices ==
  [][ LET ons == ChordsOn(out'.pads)
          last == ons[Len(ons)]
      IN /\ IF ons # <<>>
            THEN bp'.sound.pads.voices =
                   Range(getChordNotes(last.chord, last.octave))
            ELSE bp'.sound.pads.voices \in {bp.sound.pads.voices, {}}
         /\ ~bp'.isPlaying => bp'.sound.pads.voices = {} ]_vars

\* A scan has moved the pads from the first chord of the deepHouse
\* progression to the second: the notes of the second chord sound, and no
\* note of the first that the second does not have.
C39_Witness ==
  /\ lastOp.op = "scan"
  /\ bp.isPlaying
  /\ ChordsOn(out.pads) # <<>>
  /\ ChordsOn(out.pads)[Len(ChordsOn(out.pads))].chord = DeepHouseChords[2]
  /\ bp.sound.pads.voices = Range(getChordNotes(DeepHouseChords[2], 3))
  /\ Range(getChordNotes(DeepHouseChords[1], 3)) \ bp.sound.pads.voices # {}

\* C40: in every reachable state of the Clock at most one scan timer exists,
\* one is active exactly when the Clock is running and not paused, and paused
\* implies running; resume() on a Clock that is not paused, and pause() on
\* one that is not running or is paused already, change nothing.
C40_ClockState ==
  /\ [](/\ clock.liveTimers \in {0, 1}
        /\ clock.schedulerTimer <=> clock.liveTimers = 1
        /\ clock.schedulerTimer <=> (clock.isPlaying /\ ~clock.isPaused)
        /\ clock.isPaused => clock.isPlaying)
  /\ [][ /\ lastOp'.op = "ck.resume" /\ ~clock.isPaused
              => /\ clock' = clock /\ audioTime' = audioTime
                 /\ out' = NoOut
         /\ lastOp'.op = "ck.pause" /\ (~clock.isPlaying \/ clock.isPaused)
              => /\ clock' = clock /\ audioTime' = audioTime
                 /\ out' = NoOut ]_vars

\* resume() has put back the scan timer of a Clock that was paused after it
\* had dispatched steps.
C40_Witness ==
  /\ lastOp.op = "ck.resume"
  /\ clock.isPlaying /\ ~clock.isPaused
  /\ clock.schedulerTimer
  /\ clock.liveTimers = 1
  /\ clock.pausedAtStep > 0
  /\ clock.currentStep = clock.pausedAtStep
  /\ clock.nextStepTime = audioTime + START_DELAY_MS

=============================================================================
